---- MODULE Spec2Model ----
(***************************************************************************)
(* State-machine model of the kiosk player's scheduling engine             *)
(* (src/c10/lps-c10-full.py, class FullscreenPlayer): the 1 Hz tick, the   *)
(* daily offset/fired bookkeeping, the hour-change video, the playback     *)
(* queue and the action-script runner.                                     *)
(*                                                                         *)
(* The wall clock is a (day, second-of-day) pair on a scaled calendar:     *)
(* a day has HoursPerDay hours of MinutesPerHour minutes of                *)
(* SecondsPerMinute seconds. datetime.now() is read at whole seconds.      *)
(* Python dict indices 0..n-1 are the sequence indices 1..n here.          *)
(***************************************************************************)
EXTENDS Integers, Sequences, FiniteSets, TLC

\* ---------------------------------------------------------------- bounds
HoursPerDay == 2
MinutesPerHour == 2
SecondsPerMinute == 2
\* days 0..MaxDay are observed
MaxDay == 1
\* cap on the pending GLib idle callbacks
MaxIdle == 1
\* cap on the length of play_queue
MaxQueue == 1
\* cap on the length of play_queue where enqueue_file is called directly
MaxBacklog == 2
\* cap on the length of the history where a call is repeated at will
MaxEvents == 5
\* cap on the number of action chains started in one run
MaxStarts == 2
\* seconds observed of a run that follows action chains
MaxRunSeconds == 4
\* rows of a schedule.csv
MaxRows == 3
\* characters of a time field
MaxFieldLen == 4
\* range tokens of a PLAY-RANDOM pattern
MaxTokens == 2
\* the largest sample random.randint is fed with
MaxSample == 2
\* v9: ticks of time.time() in a second
TicksPerSecond == 2
\* v9: ticks observed of a run of the sequence runner
MaxSeqTicks == 10
\* v9: cap on the number of _launch_entry calls in one run
MaxLaunches == 2

SecsPerHour == MinutesPerHour * SecondsPerMinute
SecsPerDay == HoursPerDay * SecsPerHour

\* the largest hour and minute _parse_time_field is asked for
MaxHourValue == 23
MaxMinuteValue == 59

\* None of an Optional[int] field
NoHour == -1
\* None of an Optional[str] field
NoName == "None"

VARIABLES
  clock,                       \* the wall clock read by datetime.now()
  files,                       \* the paths for which os.path.exists holds
  schedule,                    \* self.schedule
  today_key,                   \* self._today_key
  today_offsets,               \* self._today_offsets
  today_fired,                 \* self._today_fired
  play_queue,                  \* self.play_queue
  playing,                     \* self._playing
  last_seen_hour,              \* self.last_seen_hour
  last_played_hour,            \* self.last_played_hour
  actions_script,              \* self.actions_script
  action_running,              \* self._action_running
  current_action_name,         \* self._current_action_name
  manual_action_last_trigger,  \* self._manual_action_last_trigger
  step_timer_source,           \* self._step_timer_source
  idle,                        \* GLib idle sources, in attachment order
  timers,                      \* GLib timeout sources armed by WAIT steps
  tick_log,                    \* what the last handler's scheduler pass fired
  hour_adds,                   \* hour videos added during the current clock hour
  last_op,                     \* the handler that ran last, when it is a tick
                               \* (one that printed "New day" or not), a reload
                               \* or a seeding call
  schedule_csv,                \* the data rows of schedule.csv, where a run reads them
  load_result,                 \* the entries the last load_schedule() call returned
  recording,                   \* whether this run keeps a history
  history,                     \* what the handlers did so far, oldest first:
                               \* requests to the player, toasts, timer events
  field_value,                 \* the text _parse_time_field is called with
  field_max,                   \* ... and its max_value
  field_result,                \* what that call returned or raised
  seq_now,                     \* v9: time.time(), in ticks
  seq_active,                  \* v9: self.seq_active
  seq_queue,                   \* v9: self.seq_queue
  seq_deadline_ts,             \* v9: self.seq_deadline_ts
  seq_wait_timer_id,           \* v9: self.seq_wait_timer_id
  seq_timers,                  \* v9: GLib timeout sources armed by wait steps
  seq_idle,                    \* v9: pending idle sources of _continue_sequence
  seq_playing,                 \* v9: the file the pipeline plays
  seq_log,                     \* v9: what the last handler of the sequence runner did
  in_startup,                  \* v9 and light: self.in_startup
  startup_queue,               \* v9 and light: self.startup_queue
  startup_idle,                \* v9 and light: pending idle sources of start_next_in_queue
  v9_last_played_hour          \* v9 and light: self.last_played_hour

vars == <<clock, files, schedule, today_key, today_offsets, today_fired,
          play_queue, playing, last_seen_hour, last_played_hour,
          actions_script, action_running, current_action_name, manual_action_last_trigger,
          step_timer_source, idle, timers, tick_log, hour_adds, last_op,
          schedule_csv, load_result, recording, history,
          field_value, field_max, field_result,
          seq_now, seq_active, seq_queue, seq_deadline_ts, seq_wait_timer_id,
          seq_timers, seq_idle, seq_playing, seq_log,
          in_startup, startup_queue, startup_idle, v9_last_played_hour>>

\* the state of a lone _parse_time_field call
vars_field == <<field_value, field_max, field_result>>
\* the state of the player of lps-c10-full.py
vars_player == <<clock, files, schedule, today_key, today_offsets, today_fired,
                 play_queue, playing, last_seen_hour, last_played_hour,
                 actions_script, action_running, current_action_name,
                 manual_action_last_trigger, step_timer_source, idle, timers,
                 tick_log, hour_adds, last_op, schedule_csv, load_result,
                 recording, history>>
\* the state of the sequence runner of gtk-gstreamer-mp4-v9-updated.py
vars_seq == <<seq_now, seq_active, seq_queue, seq_deadline_ts, seq_wait_timer_id,
              seq_timers, seq_idle, seq_playing, seq_log,
              in_startup, startup_queue, startup_idle, v9_last_played_hour>>

\* ------------------------------------------------------------ calendar
Hour(t) == t.sec \div SecsPerHour
Weekday(t) == t.day % 7
Max(a, b) == IF a >= b THEN a ELSE b

\* now.replace(hour=e.hour, minute=e.minute, second=0) + timedelta(minutes=off)
fire_dt(now, e, off) ==
  LET total == e.hour * SecsPerHour + (e.minute + off) * SecondsPerMinute
  IN  [day |-> now.day + (total \div SecsPerDay), sec |-> total % SecsPerDay]

\* ------------------------------------------------------------ schedule
\* ScheduleEntry: days = the weekdays whose flag is set (Monday = 0)
ScheduleEntry(d, h, m, r, dur, t, a, data) ==
  [days |-> d, hour |-> h, minute |-> m, random |-> r, duration |-> dur,
   text |-> t, action |-> a, data |-> data]
Entry(d, h, m, r, t, a) == ScheduleEntry(d, h, m, r, 0, t, a, "FF")

\* ---- schedule.csv
\* A numeric or time field is the sequence of its characters; a text field is
\* its body and the blanks around it.
Chars == << "0", "1", "2", "3", "4", "5", "6", "7", "8", "9" >>
IsDigit(c) == \E d \in 1..10 : Chars[d] = c
DigitOf(c) == (CHOOSE d \in 1..10 : Chars[d] = c) - 1
Text(lead, body, trail) == [lead |-> lead, body |-> body, trail |-> trail]
\* str.strip() of a text field
StripText(x) == x.body

RECURSIVE StripLeft(_)
StripLeft(v) == IF v # <<>> /\ Head(v) = " " THEN StripLeft(Tail(v)) ELSE v
RECURSIVE StripRight(_)
StripRight(v) ==
  IF v # <<>> /\ v[Len(v)] = " " THEN StripRight(SubSeq(v, 1, Len(v) - 1)) ELSE v
\* str.strip()
Strip(v) == StripRight(StripLeft(v))

Failed == [ok |-> FALSE, val |-> 0]
Parsed(x) == [ok |-> TRUE, val |-> x]

RECURSIVE DigitsValue(_, _)
DigitsValue(v, acc) ==
  IF v = <<>> THEN acc ELSE DigitsValue(Tail(v), 10 * acc + DigitOf(Head(v)))

\* str(n) of an int n >= 0
RECURSIVE Decimal(_)
Decimal(n) ==
  IF n < 10 THEN << Chars[n + 1] >>
  ELSE Append(Decimal(n \div 10), Chars[(n % 10) + 1])

\* int(text): blanks around, an optional sign, decimal digits
ParseInt(v) ==
  LET w == Strip(v)
      signed == w # <<>> /\ Head(w) \in {"+", "-"}
      body == IF signed THEN Tail(w) ELSE w
  IN  IF body = <<>> \/ \E k \in 1..Len(body) : ~IsDigit(body[k])
      THEN Failed
      ELSE Parsed(IF signed /\ Head(w) = "-"
                  THEN 0 - DigitsValue(body, 0) ELSE DigitsValue(body, 0))

\* int((v or "0").strip() or "0")
IntField(v) == IF Strip(v) = <<>> THEN Parsed(0) ELSE ParseInt(Strip(v))

\* list(range(0, max_value + 1, step))
Range(step, max_value) == [k \in 1..((max_value \div step) + 1) |-> (k - 1) * step]

\* mutant: the star forms stop one short of max_value
parse_time_field_stops_short(value, max_value) ==
  LET v == Strip(value)
  IN  IF v = <<>> THEN Parsed(<< 0 >>)
      ELSE IF v = << "*" >> THEN Parsed(Range(1, max_value - 1))
      ELSE IF Len(v) >= 2 /\ v[1] = "*" /\ v[2] = "/"
      THEN LET step == ParseInt(SubSeq(v, 3, Len(v)))
           IN  IF ~step.ok \/ step.val <= 0 THEN Failed
               ELSE Parsed(Range(step.val, max_value - 1))
      ELSE LET parsed == ParseInt(v)
           IN  IF ~parsed.ok \/ ~(0 <= parsed.val /\ parsed.val <= max_value)
               THEN Failed
               ELSE Parsed(<< parsed.val >>)

\* mutant: the multiples of a step form start at the step
parse_time_field_step_from_n(value, max_value) ==
  LET v == Strip(value)
  IN  IF v = <<>> THEN Parsed(<< 0 >>)
      ELSE IF v = << "*" >> THEN Parsed(Range(1, max_value))
      ELSE IF Len(v) >= 2 /\ v[1] = "*" /\ v[2] = "/"
      THEN LET step == ParseInt(SubSeq(v, 3, Len(v)))
           IN  IF ~step.ok \/ step.val <= 0 THEN Failed
               ELSE Parsed(Tail(Range(step.val, max_value)))
      ELSE LET parsed == ParseInt(v)
           IN  IF ~parsed.ok \/ ~(0 <= parsed.val /\ parsed.val <= max_value)
               THEN Failed
               ELSE Parsed(<< parsed.val >>)

\* mutant: a literal is taken as it is, in range or not
parse_time_field_any_number(value, max_value) ==
  LET v == Strip(value)
  IN  IF v = <<>> THEN Parsed(<< 0 >>)
      ELSE IF v = << "*" >> THEN Parsed(Range(1, max_value))
      ELSE IF Len(v) >= 2 /\ v[1] = "*" /\ v[2] = "/"
      THEN LET step == ParseInt(SubSeq(v, 3, Len(v)))
           IN  IF ~step.ok \/ step.val <= 0 THEN Failed
               ELSE Parsed(Range(step.val, max_value))
      ELSE LET parsed == ParseInt(v)
           IN  IF ~parsed.ok THEN Failed ELSE Parsed(<< parsed.val >>)

\* _parse_time_field: Failed stands for the ValueError
parse_time_field(value, max_value) ==
  LET v == Strip(value)
  IN  IF v = <<>> THEN Parsed(<< 0 >>)
      ELSE IF v = << "*" >> THEN Parsed(Range(1, max_value))
      ELSE IF Len(v) >= 2 /\ v[1] = "*" /\ v[2] = "/"
      THEN LET step == ParseInt(SubSeq(v, 3, Len(v)))
           IN  IF ~step.ok \/ step.val <= 0 THEN Failed
               ELSE Parsed(Range(step.val, max_value))
      ELSE LET parsed == ParseInt(v)
           IN  IF ~parsed.ok \/ ~(0 <= parsed.val /\ parsed.val <= max_value)
               THEN Failed
               ELSE Parsed(<< parsed.val >>)

\* a data row of schedule.csv, by column: the seven weekday flags, HH, MM,
\* the jitter bound, the duration, the toast text, the action and the tag
Row(flags, hh, mm, rnd, dur, text, action, data) ==
  [flags |-> flags, hh |-> hh, mm |-> mm, rnd |-> rnd, dur |-> dur,
   text |-> text, action |-> action, data |-> data]
IsBlank(row) ==
  /\ \A k \in 1..7 : Strip(row.flags[k]) = <<>>
  /\ Strip(row.hh) = <<>> /\ Strip(row.mm) = <<>>
  /\ Strip(row.rnd) = <<>> /\ Strip(row.dur) = <<>>
  /\ StripText(row.text) = "" /\ StripText(row.action) = "" /\ StripText(row.data) = ""

\* the entries one row adds: none when the row is blank or a field fails to parse
RowEntries(row) ==
  LET flag == [k \in 1..7 |-> IntField(row.flags[k])]
      rnd == IntField(row.rnd)
      dur == IntField(row.dur)
      hours == parse_time_field(row.hh, MaxHourValue)
      minutes == parse_time_field(row.mm, MaxMinuteValue)
  IN  IF IsBlank(row) THEN <<>>
      ELSE IF (\E k \in 1..7 : ~flag[k].ok) \/ ~rnd.ok \/ ~dur.ok \/ ~hours.ok \/ ~minutes.ok
      THEN <<>>
      ELSE LET H == hours.val
               M == minutes.val
           IN  [n \in 1..(Len(H) * Len(M)) |->
                  ScheduleEntry({ wd \in 0..6 : flag[wd + 1].val # 0 },
                                H[((n - 1) \div Len(M)) + 1],
                                M[((n - 1) % Len(M)) + 1],
                                rnd.val, dur.val, StripText(row.text),
                                StripText(row.action), StripText(row.data))]

\* mutant: the first row that fails to parse ends the load
RECURSIVE load_schedule_stops_at_bad_row(_)
load_schedule_stops_at_bad_row(rows) ==
  IF rows = <<>> THEN <<>>
  ELSE IF RowEntries(Head(rows)) = <<>> /\ ~IsBlank(Head(rows)) THEN <<>>
  ELSE RowEntries(Head(rows)) \o load_schedule_stops_at_bad_row(Tail(rows))

RECURSIVE load_schedule(_)
load_schedule(rows) ==
  IF rows = <<>> THEN <<>>
  ELSE RowEntries(Head(rows)) \o load_schedule(Tail(rows))

\* ---- PLAY-RANDOM patterns
\* a pattern and a path made from it are the sequences of their characters
DigitChars == { Chars[d] : d \in 1..10 }
\* how many characters of p, from position i on, belong to the class
RECURSIVE RunOf(_, _, _)
RunOf(p, i, class) ==
  IF i <= Len(p) /\ p[i] \in class THEN 1 + RunOf(p, i + 1, class) ELSE 0
At(p, i) == IF i \in 1..Len(p) THEN p[i] ELSE ""
\* _RANGE_RE tried at the head of p: the length of the match (0 when there
\* is none) and the two numbers
RangeMatch(p) ==
  LET d1 == RunOf(p, 2, DigitChars)
      i2 == 2 + d1
      i3 == i2 + RunOf(p, i2, {" "})
      dots == IF At(p, i3) = "." /\ At(p, i3 + 1) = "." THEN 2
              ELSE IF At(p, i3) = "." THEN 1 ELSE 0
      i4 == i3 + dots
      i5 == i4 + RunOf(p, i4, {" "})
      d2 == RunOf(p, i5, DigitChars)
      i6 == i5 + d2
  IN  IF At(p, 1) = "[" /\ d1 >= 1 /\ dots >= 1 /\ d2 >= 1 /\ At(p, i6) = "]"
      THEN [len |-> i6, a |-> DigitsValue(SubSeq(p, 2, 1 + d1), 0),
            b |-> DigitsValue(SubSeq(p, i5, i6 - 1), 0)]
      ELSE [len |-> 0, a |-> 0, b |-> 0]

\* _RANGE_RE.sub(repl, pattern) from the head of p on; draw[k] is the sample
\* the k-th call of random.randint takes its result from
RECURSIVE range_sub(_, _, _, _)
range_sub(p, draw, k, in_order) ==
  IF p = <<>> THEN <<>>
  ELSE LET m == RangeMatch(p)
           lo == IF in_order /\ m.a > m.b THEN m.b ELSE m.a
           width == IF m.a > m.b THEN m.a - m.b ELSE m.b - m.a
       IN  IF m.len > 0
           THEN Decimal(lo + (draw[k] % (width + 1)))
                  \o range_sub(SubSeq(p, m.len + 1, Len(p)), draw, k + 1, in_order)
           ELSE << Head(p) >> \o range_sub(Tail(p), draw, k, in_order)

\* mutant: the two numbers of a range are not put in order
expand_play_random_unordered(pattern, draw) == range_sub(pattern, draw, 1, FALSE)

expand_play_random(pattern, draw) == range_sub(pattern, draw, 1, TRUE)

\* the samples one run of a handler can get from random.randint
Samples == [1..MaxTokens -> 0..MaxSample]

\* rows a schedule.csv can hold
Weekdays == << <<"1">>, <<"1">>, <<"1">>, <<"1">>, <<"1">>, <<"0">>, <<>> >>
Weekend == << <<>>, <<>>, <<>>, <<>>, <<>>, <<"1">>, <<" ", "2">> >>
RowStepped ==
  Row(Weekdays, <<"*", "/", "6">>, <<"*", "/", "2", "0">>, <<"5">>, <<"6", "0">>,
      Text(1, "stretch", 0), Text(0, "ACT_STRETCH", 1), Text(0, "FF", 0))
RowSingle ==
  Row(Weekend, <<"7">>, <<>>, <<>>, <<>>, Text(0, "", 0), Text(0, "ACT_WAKE", 0), Text(0, "FF", 0))
RowEveryHour ==
  Row(Weekdays, <<"*">>, <<"3", "0">>, <<"0">>, <<"1">>, Text(0, "half", 0), Text(0, "", 0), Text(0, "FF", 0))
RowEveryMinute ==
  Row(Weekend, <<"9">>, <<"*">>, <<>>, <<>>, Text(0, "", 0), Text(0, "ACT_TICK", 0), Text(0, "", 0))
RowPadded ==
  Row(Weekdays, <<" ", "2", "3", " ">>, <<"5", "9">>, <<"1", "5">>, <<"6", "0", "0">>,
      Text(2, "late", 2), Text(0, "ACT_LATE", 0), Text(0, "FF", 0))
RowHourTooBig ==
  Row(Weekdays, <<"2", "4">>, <<"0">>, <<>>, <<>>, Text(0, "x", 0), Text(0, "", 0), Text(0, "FF", 0))
RowStepZero ==
  Row(Weekdays, <<"8">>, <<"*", "/", "0">>, <<>>, <<>>, Text(0, "x", 0), Text(0, "", 0), Text(0, "FF", 0))
RowBadStep ==
  Row(Weekend, <<"*", "/", "x">>, <<"1", "0">>, <<>>, <<>>, Text(0, "x", 0), Text(0, "", 0), Text(0, "FF", 0))
RowBadFlag ==
  Row(<< <<"1">>, <<"x">>, <<"1">>, <<>>, <<>>, <<>>, <<>> >>, <<"8">>, <<"1", "5">>, <<>>, <<>>,
      Text(0, "x", 0), Text(0, "", 0), Text(0, "FF", 0))
RowBadJitter ==
  Row(Weekdays, <<"*">>, <<"*", "/", "3", "0">>, <<"1", ".", "5">>, <<>>,
      Text(0, "x", 0), Text(0, "", 0), Text(0, "FF", 0))
RowBadDuration ==
  Row(Weekend, <<"*", "/", "1", "2">>, <<"0">>, <<"3">>, <<"6", "0", "s">>,
      Text(0, "x", 0), Text(0, "", 0), Text(0, "FF", 0))
RowBadMinute ==
  Row(Weekdays, <<"*">>, <<"6", "0">>, <<>>, <<>>, Text(0, "x", 0), Text(0, "", 0), Text(0, "FF", 0))
CsvRows ==
  { RowStepped, RowSingle, RowEveryHour, RowEveryMinute, RowPadded,
    RowHourTooBig, RowStepZero, RowBadStep,
    RowBadFlag, RowBadJitter, RowBadDuration, RowBadMinute }

EGreet == Entry({0, 1}, 0, 1, 0, "hello", "GREET")
\* an entry whose jitter bound is below zero
ESilent == Entry({0, 1}, 0, 1, -1, "", "NOPE")
EJitter == Entry({0, 1}, 1, 0, 1, "", "ACT_A_KEY_ACTION")
ELate == Entry({1}, HoursPerDay - 1, MinutesPerHour - 1, 1, "late", "")
\* a toast early in the day, with jitter
EEarly == Entry({0, 1}, 0, 1, 1, "early", "")

\* the contents schedule.csv can have when load_schedule reads it
ScheduleFiles == { <<EGreet, ESilent>>, <<EJitter>> }

\* A path is a pair <<kind, number>>: <<"hour", h>> is ".../c10 - HHh.mp4".
NoPath == <<"", 0>>
FALLBACK_PATH == <<"fallback", 0>>
HelloPath == <<"hello", 0>>
DayMsgPath(wd) == <<"good", wd>>
ClipA == <<"clip", 1>>
ClipB == <<"clip", 2>>
ClipC == <<"clip", 3>>

path_for_hour(F, hour) ==
  LET candidate == <<"hour", hour>>
  IN  IF candidate \in F THEN candidate ELSE FALLBACK_PATH

\* script.json as load_actions_script returns it
\* a step is a JSON object; keys is the number of its keys (1 when well formed)
Step(op, val) == [keys |-> 1, op |-> op, val |-> val]
ScriptPlayOnly ==
  [n \in {"GREET", "ACT_A_KEY_ACTION"} |->
     IF n = "GREET" THEN << Step("PLAY", ClipA) >> ELSE << Step("PLAY", ClipB) >>]
ScriptWithWait ==
  [n \in {"GREET", "ACT_A_KEY_ACTION"} |->
     IF n = "GREET" THEN << Step("PLAY", ClipA) >>
     ELSE << Step("WAIT", << "1" >>), Step("PLAY", ClipB) >>]

\* a step that is not a single-key object
Malformed == [keys |-> 2, op |-> "", val |-> NoPath]
ToastX == <<"toast", 1>>
\* a table with a chain that waits, one with steps to skip, one that only
\* waits and plays, and an empty step list
ScriptChains ==
  [n \in {"LINEAR", "ROUGH", "PAUSE", "EMPTY"} |->
     CASE n = "LINEAR" -> << Step("PLAY", ClipA), Step("WAIT", << "1" >>),
                             Step("TOAST-MESSAGE", ToastX), Step("PLAY", ClipB) >>
       [] n = "ROUGH" -> << Step("PLAY", ClipA), Malformed,
                            Step("DANCE", ClipC), Step("PLAY", ClipB) >>
       [] n = "PAUSE" -> << Step("WAIT", << "1" >>), Step("PLAY", ClipC) >>
       [] OTHER -> <<>>]
\* a table of chains that wait: for no time, for a text with a number in it,
\* for two minutes
ScriptWaits ==
  [n \in {"NOW", "PAUSE", "LONG"} |->
     CASE n = "NOW" -> << Step("WAIT", << "s", "o", "o", "n" >>), Step("PLAY", ClipA) >>
       [] n = "PAUSE" -> << Step("WAIT", << "1", " ", "m", "i", "n" >>), Step("PLAY", ClipC) >>
       [] OTHER -> << Step("PLAY", ClipB), Step("WAIT", << "2" >>),
                      Step("TOAST-MESSAGE", ToastX) >>]
\* the table another script.json would give: the same names, other steps
ScriptOther ==
  [n \in {"LINEAR", "ROUGH", "PAUSE", "EMPTY"} |->
     << Step("PLAY", ClipB), Step("PLAY", ClipB) >>]

\* PLAY-RANDOM patterns, written out character by character
ClipName(n) == << "c", "l", "i", "p", "_" >> \o n \o << ".", "m", "p", "4" >>
PatternClip == ClipName(<< "[", "1", ".", ".", "3", "]" >>)
PatternBackwards == << "v", "_", "[", "1", "1", " ", ".", " ", "0", "9", "]" >>
PatternTwice == << "[", "0", ".", ".", "1", "]", "-", "[", "5", ".", ".", "5", "]" >>
PatternNoRange == << "a", "[", "1", ".", ".", ".", "3", "]" >>
\* a table whose actions pick their videos at random
ScriptRandom ==
  [n \in {"SHUFFLE", "MIXED"} |->
     IF n = "SHUFFLE"
     THEN << Step("PLAY-RANDOM", PatternClip), Step("PLAY-RANDOM", PatternBackwards) >>
     ELSE << Step("PLAY-RANDOM", PatternTwice), Step("PLAY-RANDOM", PatternNoRange),
             Step("PLAY-RANDOM", PatternClip) >>]
\* here two of the three numbered clips exist, and some of the other picks
FilesRandom ==
  { ClipName(<< "1" >>), ClipName(<< "3" >>), << "v", "_", "1", "0" >>, << "1", "-", "5" >>,
    PatternNoRange }

\* file systems the player is started on: in the first the video of hour 0
\* exists and those of the later hours and the fallback are missing
FilesHourZero == { <<"hour", 0>>, ClipA, ClipB, HelloPath }
\* here every hour falls back to the same playable video
FilesFallback == { FALLBACK_PATH, ClipA }
\* here only the clip of the A-key action exists
FilesClipOnly == { ClipB }
\* here the three clips exist and nothing else
FilesClips == { ClipA, ClipB, ClipC }

\* a table of two actions that play two videos each, one picked at random
ScriptMix ==
  [n \in {"DUO", "SOLO"} |->
     IF n = "DUO"
     THEN << Step("PLAY", ClipA), Step("PLAY", ClipB) >>
     ELSE << Step("PLAY-RANDOM", PatternClip), Step("PLAY", ClipC) >>]
\* here the video of hour 0, the startup video and the clips exist, two of
\* the three the pattern stands for among them
FilesMix ==
  { <<"hour", 0>>, HelloPath, ClipA, ClipB, ClipC,
    ClipName(<< "1" >>), ClipName(<< "3" >>) }

\* ------------------------------------------------------------ the object
Self ==
  [schedule |-> schedule, today_key |-> today_key,
   today_offsets |-> today_offsets, today_fired |-> today_fired,
   play_queue |-> play_queue, playing |-> playing,
   last_seen_hour |-> last_seen_hour, last_played_hour |-> last_played_hour,
   actions_script |-> actions_script, action_running |-> action_running,
   current_action_name |-> current_action_name,
   manual_action_last_trigger |-> manual_action_last_trigger,
   step_timer_source |-> step_timer_source,
   idle |-> idle, timers |-> timers, files |-> files,
   tick_log |-> <<>>, hour_adds |-> hour_adds, out_log |-> <<>>,
   rand |-> <<>>]
\* the object in a handler run in which random.randint returns by the samples
WithSamples(s, draw) == [s EXCEPT !.rand = draw]

Commit(s, op) ==
  /\ schedule' = s.schedule
  /\ today_key' = s.today_key
  /\ today_offsets' = s.today_offsets
  /\ today_fired' = s.today_fired
  /\ play_queue' = s.play_queue
  /\ playing' = s.playing
  /\ last_seen_hour' = s.last_seen_hour
  /\ last_played_hour' = s.last_played_hour
  /\ action_running' = s.action_running
  /\ current_action_name' = s.current_action_name
  /\ manual_action_last_trigger' = s.manual_action_last_trigger
  /\ step_timer_source' = s.step_timer_source
  /\ idle' = s.idle
  /\ timers' = s.timers
  /\ tick_log' = s.tick_log
  /\ hour_adds' = s.hour_adds
  /\ last_op' = op
  /\ history' = IF recording THEN history \o s.out_log ELSE history
  /\ UNCHANGED <<clock, files, actions_script, recording, schedule_csv, load_result,
                 vars_field, vars_seq>>

\* ------------------------------------------------------------ dicts
EmptyDict == [k \in {} |-> 0]
DictGet(d, k, default) == IF k \in DOMAIN d THEN d[k] ELSE default
DictSet(d, k, v) == [x \in (DOMAIN d) \cup {k} |-> IF x = k THEN v ELSE d[x]]

\* ------------------------------------------------------------ observable effects
\* one thing a handler did: ev names it, val is the path, text or name it is about
Event(ev, val) == [ev |-> ev, val |-> val]
Log(s, ev, val) == [s EXCEPT !.out_log = Append(@, Event(ev, val))]

\* ------------------------------------------------------------ playback queue
RECURSIVE play_file(_, _)
RECURSIVE try_play_next_in_queue(_)

\* mutant: a missing file is logged and nothing else is tried
play_file_gives_up(s, path) ==
  IF path = NoPath \/ path \notin s.files
  THEN Log(s, "not_found", path)
  ELSE [Log(s, "play", path) EXCEPT !.playing = TRUE]

play_file(s, path) ==
  IF path = NoPath \/ path \notin s.files
  THEN try_play_next_in_queue(Log(s, "not_found", path))
  ELSE [Log(s, "play", path) EXCEPT !.playing = TRUE]

\* mutant: the newest queued path is played next
try_play_next_in_queue_newest_first(s) ==
  IF s.play_queue # <<>>
  THEN play_file([s EXCEPT !.play_queue = SubSeq(@, 1, Len(@) - 1)],
                 s.play_queue[Len(s.play_queue)])
  ELSE [Log(s, "stop_to_clock", NoPath) EXCEPT !.playing = FALSE]

try_play_next_in_queue(s) ==
  IF s.play_queue # <<>>
  THEN play_file([s EXCEPT !.play_queue = Tail(@)], Head(s.play_queue))
  ELSE [Log(s, "stop_to_clock", NoPath) EXCEPT !.playing = FALSE]

\* mutant: the new path is started at once, whatever is playing
enqueue_file_interrupts(s, path) ==
  IF path = NoPath \/ path \notin s.files
  THEN Log(s, "skipping", path)
  ELSE play_file(Log(s, "enqueue", path), path)

\* mutant: the path is appended to the queue whatever the playing flag says
enqueue_file_always_queues(s, path) ==
  IF path = NoPath \/ path \notin s.files
  THEN Log(s, "skipping", path)
  ELSE [Log(s, "enqueue", path) EXCEPT !.play_queue = Append(@, path)]

\* mutant: a path that has to wait goes to the front of the queue
enqueue_file_jumps_queue(s, path) ==
  IF path = NoPath \/ path \notin s.files
  THEN Log(s, "skipping", path)
  ELSE IF ~s.playing
       THEN play_file(Log(s, "enqueue", path), path)
       ELSE [Log(s, "enqueue", path) EXCEPT !.play_queue = << path >> \o @]

enqueue_file(s, path) ==
  IF path = NoPath \/ path \notin s.files
  THEN Log(s, "skipping", path)
  ELSE IF ~s.playing
       THEN play_file(Log(s, "enqueue", path), path)
       ELSE [Log(s, "enqueue", path) EXCEPT !.play_queue = Append(@, path)]

enqueue_hour_video(s, hour) ==
  IF s.last_played_hour = hour
  THEN s
  ELSE LET path == path_for_hour(s.files, hour)
       IN  IF path = NoPath \/ path \notin s.files
           THEN s
           ELSE [enqueue_file(s, path) EXCEPT
                   !.last_played_hour = hour,
                   !.hour_adds = Append(@, hour)]

on_eos(s) == try_play_next_in_queue([s EXCEPT !.playing = FALSE])

\* mutant: a playback error shows the clock and leaves the queue alone
on_error_stops(s) == [Log(s, "stop_to_clock", NoPath) EXCEPT !.playing = FALSE]

on_error(s) == try_play_next_in_queue([s EXCEPT !.playing = FALSE])

enqueue_startup_sequence(s, now) ==
  LET s1 == IF HelloPath \in s.files THEN enqueue_file(s, HelloPath) ELSE s
      daymsg == DayMsgPath(Weekday(now))
  IN  IF daymsg \in s1.files THEN enqueue_file(s1, daymsg) ELSE s1

\* ------------------------------------------------------------ action runner
\* a GLib source: kind "hour" runs enqueue_hour_video(hour),
\* kind "chain" runs _run_steps_chain(steps, idx)
HourSource(h) == [kind |-> "hour", hour |-> h, steps |-> <<>>, idx |-> 0]
ChainSource(steps, idx) == [kind |-> "chain", hour |-> NoHour, steps |-> steps, idx |-> idx]

\* GLib.idle_add(self._run_steps_chain, steps, idx)
idle_add(s, steps, idx) == [s EXCEPT !.idle = Append(@, ChainSource(steps, idx))]

AbsTime(t) == t.day * SecsPerDay + t.sec

\* a source id GLib has not handed out to a pending source
FreshId(s) ==
  CHOOSE n \in 1..(Cardinality(s.timers) + 1) : \A t \in s.timers : t.id # n

cancel_step_timer(s) ==
  IF s.step_timer_source # 0
  THEN [s EXCEPT !.timers = { t \in @ : t.id # s.step_timer_source },
                 !.step_timer_source = 0]
  ELSE s

\* re.search(r"(\d+)", str(val)): the first run of digits of a WAIT value,
\* read as a number of minutes; 0 when it has no digit
wait_minutes(val) ==
  LET at == { i \in 1..Len(val) : val[i] \in DigitChars }
      first == CHOOSE i \in at : \A j \in at : i <= j
  IN  IF at = {} THEN 0
      ELSE DigitsValue(SubSeq(val, first, first + RunOf(val, first, DigitChars) - 1), 0)

\* mutant: a WAIT step goes on to the next step without a timer
run_steps_chain_never_waits(s, steps, idx, now) ==
  IF idx > Len(steps)
  THEN [Log(s, "finished", <<s.current_action_name, 0>>) EXCEPT
          !.action_running = FALSE, !.current_action_name = NoName]
  ELSE IF steps[idx].keys # 1
  THEN idle_add(Log(s, "malformed_step", <<"step", idx>>), steps, idx + 1)
  ELSE LET op == steps[idx].op
           val == steps[idx].val
       IN  CASE op = "PLAY" -> idle_add(enqueue_file(s, val), steps, idx + 1)
             [] op = "PLAY-RANDOM" ->
                  idle_add(enqueue_file(s, expand_play_random(val, s.rand)), steps, idx + 1)
             [] op = "WAIT" ->
                  idle_add(Log(s, "wait", <<"minutes", wait_minutes(val)>>), steps, idx + 1)
             [] op = "TOAST-MESSAGE" -> idle_add(Log(s, "toast", val), steps, idx + 1)
             [] OTHER -> idle_add(Log(s, "unknown_op", <<"step", idx>>), steps, idx + 1)

\* mutant: an unknown operation ends the chain
run_steps_chain_stops_at_unknown(s, steps, idx, now) ==
  IF idx > Len(steps)
  THEN [Log(s, "finished", <<s.current_action_name, 0>>) EXCEPT
          !.action_running = FALSE, !.current_action_name = NoName]
  ELSE IF steps[idx].keys # 1
  THEN idle_add(Log(s, "malformed_step", <<"step", idx>>), steps, idx + 1)
  ELSE LET op == steps[idx].op
           val == steps[idx].val
       IN  CASE op = "PLAY" -> idle_add(enqueue_file(s, val), steps, idx + 1)
             [] op = "PLAY-RANDOM" ->
                  idle_add(enqueue_file(s, expand_play_random(val, s.rand)), steps, idx + 1)
             [] op = "WAIT" ->
                  LET minutes == wait_minutes(val)
                      seconds == minutes * SecondsPerMinute
                      s1 == cancel_step_timer(s)
                      id == FreshId(s1)
                  IN  [Log(s1, "wait", <<"minutes", minutes>>) EXCEPT
                         !.timers = @ \cup {[id |-> id, steps |-> steps, idx |-> idx + 1,
                                             due |-> AbsTime(now) + seconds]},
                         !.step_timer_source = id]
             [] op = "TOAST-MESSAGE" -> idle_add(Log(s, "toast", val), steps, idx + 1)
             [] OTHER -> [Log(s, "unknown_op", <<"step", idx>>) EXCEPT
                           !.action_running = FALSE, !.current_action_name = NoName]

\* mutant: the number of a WAIT step is taken as seconds
run_steps_chain_waits_seconds(s, steps, idx, now) ==
  IF idx > Len(steps)
  THEN [Log(s, "finished", <<s.current_action_name, 0>>) EXCEPT
          !.action_running = FALSE, !.current_action_name = NoName]
  ELSE IF steps[idx].keys # 1
  THEN idle_add(Log(s, "malformed_step", <<"step", idx>>), steps, idx + 1)
  ELSE LET op == steps[idx].op
           val == steps[idx].val
       IN  CASE op = "PLAY" -> idle_add(enqueue_file(s, val), steps, idx + 1)
             [] op = "PLAY-RANDOM" ->
                  idle_add(enqueue_file(s, expand_play_random(val, s.rand)), steps, idx + 1)
             [] op = "WAIT" ->
                  LET minutes == wait_minutes(val)
                      s1 == cancel_step_timer(s)
                      id == FreshId(s1)
                  IN  [Log(s1, "wait", <<"minutes", minutes>>) EXCEPT
                         !.timers = @ \cup {[id |-> id, steps |-> steps, idx |-> idx + 1,
                                             due |-> AbsTime(now) + minutes]},
                         !.step_timer_source = id]
             [] op = "TOAST-MESSAGE" -> idle_add(Log(s, "toast", val), steps, idx + 1)
             [] OTHER -> idle_add(Log(s, "unknown_op", <<"step", idx>>), steps, idx + 1)

\* mutant: a WAIT step arms its timer without cancelling the stored one
run_steps_chain_keeps_timer(s, steps, idx, now) ==
  IF idx > Len(steps)
  THEN [Log(s, "finished", <<s.current_action_name, 0>>) EXCEPT
          !.action_running = FALSE, !.current_action_name = NoName]
  ELSE IF steps[idx].keys # 1
  THEN idle_add(Log(s, "malformed_step", <<"step", idx>>), steps, idx + 1)
  ELSE LET op == steps[idx].op
           val == steps[idx].val
       IN  CASE op = "PLAY" -> idle_add(enqueue_file(s, val), steps, idx + 1)
             [] op = "PLAY-RANDOM" ->
                  idle_add(enqueue_file(s, expand_play_random(val, s.rand)), steps, idx + 1)
             [] op = "WAIT" ->
                  LET minutes == wait_minutes(val)
                      seconds == minutes * SecondsPerMinute
                      id == FreshId(s)
                  IN  [Log(s, "wait", <<"minutes", minutes>>) EXCEPT
                         !.timers = @ \cup {[id |-> id, steps |-> steps, idx |-> idx + 1,
                                             due |-> AbsTime(now) + seconds]},
                         !.step_timer_source = id]
             [] op = "TOAST-MESSAGE" -> idle_add(Log(s, "toast", val), steps, idx + 1)
             [] OTHER -> idle_add(Log(s, "unknown_op", <<"step", idx>>), steps, idx + 1)

run_steps_chain(s, steps, idx, now) ==
  IF idx > Len(steps)
  THEN [Log(s, "finished", <<s.current_action_name, 0>>) EXCEPT
          !.action_running = FALSE, !.current_action_name = NoName]
  ELSE IF steps[idx].keys # 1
  THEN idle_add(Log(s, "malformed_step", <<"step", idx>>), steps, idx + 1)
  ELSE LET op == steps[idx].op
           val == steps[idx].val
       IN  CASE op = "PLAY" -> idle_add(enqueue_file(s, val), steps, idx + 1)
             [] op = "PLAY-RANDOM" ->
                  idle_add(enqueue_file(s, expand_play_random(val, s.rand)), steps, idx + 1)
             [] op = "WAIT" ->
                  LET minutes == wait_minutes(val)
                      seconds == minutes * SecondsPerMinute
                      s1 == cancel_step_timer(s)
                      id == FreshId(s1)
                  IN  [Log(s1, "wait", <<"minutes", minutes>>) EXCEPT
                         !.timers = @ \cup {[id |-> id, steps |-> steps, idx |-> idx + 1,
                                             due |-> AbsTime(now) + seconds]},
                         !.step_timer_source = id]
             [] op = "TOAST-MESSAGE" -> idle_add(Log(s, "toast", val), steps, idx + 1)
             [] OTHER -> idle_add(Log(s, "unknown_op", <<"step", idx>>), steps, idx + 1)

\* mutant: the chain goes on with the steps the table holds now
after_wait_continue_rereads(s, t, now) ==
  run_steps_chain(Log([s EXCEPT !.step_timer_source = 0], "wait_over", <<"step", t.idx>>),
                  DictGet(s.actions_script, s.current_action_name, <<>>), t.idx, now)

\* mutant: the chain goes on with the WAIT step it has just waited for
after_wait_continue_same_step(s, t, now) ==
  run_steps_chain(Log([s EXCEPT !.step_timer_source = 0], "wait_over", <<"step", t.idx>>),
                  t.steps, t.idx - 1, now)

after_wait_continue(s, t, now) ==
  run_steps_chain(Log([s EXCEPT !.step_timer_source = 0], "wait_over", <<"step", t.idx>>),
                  t.steps, t.idx, now)

\* mutant: the action is marked as running before its steps are looked up
run_action_marks_first(s, action_name, now) ==
  LET steps == DictGet(s.actions_script, action_name, <<>>)
      s1 == [s EXCEPT !.action_running = TRUE, !.current_action_name = action_name]
  IN  IF steps = <<>>
      THEN Log(s1, "unknown_or_empty", <<action_name, 0>>)
      ELSE run_steps_chain(Log(s1, "starting", <<action_name, 0>>), steps, 1, now)

run_action(s, action_name, now) ==
  LET steps == DictGet(s.actions_script, action_name, <<>>)
  IN  IF steps = <<>>
      THEN Log(s, "unknown_or_empty", <<action_name, 0>>)
      ELSE run_steps_chain(
             [Log(s, "starting", <<action_name, 0>>) EXCEPT
                !.action_running = TRUE, !.current_action_name = action_name],
             steps, 1, now)

\* mutant: one time stamp serves every action name
play_manual_action_once_any_name(s, action_name, now) ==
  IF \E n \in DOMAIN s.manual_action_last_trigger :
       AbsTime(now) - AbsTime(s.manual_action_last_trigger[n]) < 1
  THEN Log(s, "ignoring_repeat", <<action_name, 0>>)
  ELSE IF s.action_running /\ s.current_action_name = action_name
       THEN Log(s, "already_running", <<action_name, 0>>)
       ELSE run_action(
              [s EXCEPT !.manual_action_last_trigger = DictSet(@, action_name, now)],
              action_name, now)

play_manual_action_once(s, action_name, now) ==
  IF /\ action_name \in DOMAIN s.manual_action_last_trigger
     /\ AbsTime(now) - AbsTime(s.manual_action_last_trigger[action_name]) < 1
  THEN Log(s, "ignoring_repeat", <<action_name, 0>>)
  ELSE IF s.action_running /\ s.current_action_name = action_name
       THEN Log(s, "already_running", <<action_name, 0>>)
       ELSE run_action(
              [s EXCEPT !.manual_action_last_trigger = DictSet(@, action_name, now)],
              action_name, now)

\* ------------------------------------------------------------ daily state
\* one random.randint sample per entry index, each within 0..max(0, e.random)
RandomDraws(sched) ==
  { r \in [1..Len(sched) -> 0..(MinutesPerHour - 1)] :
      \A i \in 1..Len(sched) : r[i] <= Max(0, sched[i].random) }

\* mutant: every index is sampled again, present or not
seed_today_offsets_resamples(s, force, draw) ==
  LET idxs == 1..Len(s.schedule)
      offs0 == IF force THEN EmptyDict ELSE s.today_offsets
      fired0 == IF force THEN EmptyDict ELSE s.today_fired
  IN  [s EXCEPT
         !.today_offsets =
            [i \in (DOMAIN offs0) \cup idxs |->
               IF i \in idxs
               THEN (IF Max(0, s.schedule[i].random) > 0 THEN draw[i] ELSE 0)
               ELSE offs0[i]],
         !.today_fired =
            [i \in (DOMAIN fired0) \cup idxs |->
               IF i \in idxs THEN FALSE ELSE fired0[i]]]

\* mutant: the maps are not cleared when force is set
seed_today_offsets_never_clears(s, force, draw) ==
  LET offs0 == s.today_offsets
      fired0 == s.today_fired
      idxs == 1..Len(s.schedule)
      rnd(i) == Max(0, s.schedule[i].random)
  IN  [s EXCEPT
         !.today_offsets =
            [i \in (DOMAIN offs0) \cup idxs |->
               IF i \in DOMAIN offs0 THEN offs0[i]
               ELSE IF rnd(i) > 0 THEN draw[i] ELSE 0],
         !.today_fired =
            [i \in (DOMAIN fired0) \cup idxs |->
               IF i \in idxs THEN FALSE ELSE fired0[i]]]

seed_today_offsets(s, force, draw) ==
  LET offs0 == IF force THEN EmptyDict ELSE s.today_offsets
      fired0 == IF force THEN EmptyDict ELSE s.today_fired
      idxs == 1..Len(s.schedule)
      rnd(i) == Max(0, s.schedule[i].random)
  IN  [s EXCEPT
         !.today_offsets =
            [i \in (DOMAIN offs0) \cup idxs |->
               IF i \in DOMAIN offs0 THEN offs0[i]
               ELSE IF rnd(i) > 0 THEN draw[i] ELSE 0],
         !.today_fired =
            [i \in (DOMAIN fired0) \cup idxs |->
               IF i \in idxs THEN FALSE ELSE fired0[i]]]

\* mutant: the fired flag is not consulted
should_fire_ignores_fired(s, idx, now) ==
  LET e == s.schedule[idx]
  IN  /\ Weekday(now) \in e.days
      /\ now = fire_dt(now, e, DictGet(s.today_offsets, idx, 0))

\* the condition under which _check_and_fire_scheduled fires entry idx
should_fire(s, idx, now) ==
  LET e == s.schedule[idx]
  IN  /\ Weekday(now) \in e.days
      /\ ~DictGet(s.today_fired, idx, FALSE)
      /\ now = fire_dt(now, e, DictGet(s.today_offsets, idx, 0))

\* what the scheduler pass did for entry idx: the texts it passed to
\* show_toast and the names it passed to run_action
Fired(idx, toasts, actions) == [idx |-> idx, toasts |-> toasts, actions |-> actions]

\* mutant: the action is run only when the entry also has a toast text
fire_entry_action_needs_text(s, idx, now) ==
  LET e == s.schedule[idx]
      runs == e.text # "" /\ e.action # ""
      s1 == [s EXCEPT
               !.today_fired = DictSet(@, idx, TRUE),
               !.tick_log = Append(@, Fired(idx,
                              IF e.text # "" THEN <<e.text>> ELSE <<>>,
                              IF runs THEN <<e.action>> ELSE <<>>))]
  IN  IF runs THEN run_action(s1, e.action, now) ELSE s1

\* mutant: a scheduled action goes through the manual trigger's debounce
fire_entry_debounced(s, idx, now) ==
  LET e == s.schedule[idx]
      s1 == [s EXCEPT
               !.today_fired = DictSet(@, idx, TRUE),
               !.tick_log = Append(@, Fired(idx,
                              IF e.text # "" THEN <<e.text>> ELSE <<>>,
                              IF e.action # "" THEN <<e.action>> ELSE <<>>))]
  IN  IF e.action # "" THEN play_manual_action_once(s1, e.action, now) ELSE s1

\* the body of the loop for one entry that fires
fire_entry(s, idx, now) ==
  LET e == s.schedule[idx]
      s1 == [s EXCEPT
               !.today_fired = DictSet(@, idx, TRUE),
               !.tick_log = Append(@, Fired(idx,
                              IF e.text # "" THEN <<e.text>> ELSE <<>>,
                              IF e.action # "" THEN <<e.action>> ELSE <<>>))]
  IN  IF e.action # "" THEN run_action(s1, e.action, now) ELSE s1

\* mutant: the loop ends at the first entry that fires
RECURSIVE check_from_stops_after_first(_, _, _)
check_from_stops_after_first(s, idx, now) ==
  IF idx > Len(s.schedule)
  THEN s
  ELSE IF should_fire(s, idx, now)
       THEN fire_entry(s, idx, now)
       ELSE check_from_stops_after_first(s, idx + 1, now)

RECURSIVE check_from(_, _, _)
check_from(s, idx, now) ==
  IF idx > Len(s.schedule)
  THEN s
  ELSE IF should_fire(s, idx, now)
       THEN check_from(fire_entry(s, idx, now), idx + 1, now)
       ELSE check_from(s, idx + 1, now)

check_and_fire_scheduled(s, now) == check_from(s, 1, now)

\* mutant: the daily state is re-seeded with force on every tick
tick_always_reseeds(s, now, draw) ==
  LET s1 == seed_today_offsets([s EXCEPT !.today_key = now.day], TRUE, draw)
      s2 == IF Hour(now) # s1.last_seen_hour
            THEN enqueue_hour_video([s1 EXCEPT !.last_seen_hour = Hour(now)], Hour(now))
            ELSE s1
  IN  check_and_fire_scheduled(s2, now)

\* mutant: the scheduler pass runs before the new day's reset
tick_resets_after_pass(s, now, draw) ==
  LET s1 == IF Hour(now) # s.last_seen_hour
            THEN enqueue_hour_video([s EXCEPT !.last_seen_hour = Hour(now)], Hour(now))
            ELSE s
      s2 == check_and_fire_scheduled(s1, now)
  IN  IF now.day # s.today_key
      THEN seed_today_offsets([s2 EXCEPT !.today_key = now.day], TRUE, draw)
      ELSE s2

tick(s, now, draw) ==
  LET s1 == IF now.day # s.today_key
            THEN seed_today_offsets([s EXCEPT !.today_key = now.day], TRUE, draw)
            ELSE s
      s2 == IF Hour(now) # s1.last_seen_hour
            THEN enqueue_hour_video([s1 EXCEPT !.last_seen_hour = Hour(now)], Hour(now))
            ELSE s1
  IN  check_and_fire_scheduled(s2, now)

\* mutant: the R key seeds without force
on_key_R_without_force(s, loaded, draw) ==
  seed_today_offsets([s EXCEPT !.schedule = loaded], FALSE, draw)

\* on_key, R: reload the schedule and re-seed with force
on_key_R(s, loaded, draw) ==
  seed_today_offsets([s EXCEPT !.schedule = loaded], TRUE, draw)

\* on_key, A
on_key_A(s, now) == play_manual_action_once(s, "ACT_A_KEY_ACTION", now)

\* ------------------------------------------------------------ construction
StartClock == [day |-> 0, sec |-> 0]

\* FullscreenPlayer.__init__
Constructed(loaded, script, F, now, draw) ==
  LET s0 == [schedule |-> loaded, today_key |-> now.day,
             today_offsets |-> EmptyDict, today_fired |-> EmptyDict,
             play_queue |-> <<>>, playing |-> FALSE,
             last_seen_hour |-> Hour(now), last_played_hour |-> NoHour,
             actions_script |-> script,
             action_running |-> FALSE, current_action_name |-> NoName,
             manual_action_last_trigger |-> EmptyDict,
             step_timer_source |-> 0,
             idle |-> << HourSource(Hour(now)) >>, timers |-> {}, files |-> F,
             tick_log |-> <<>>, hour_adds |-> <<>>, out_log |-> <<>>,
             rand |-> <<>>]
  IN  enqueue_startup_sequence(seed_today_offsets(s0, FALSE, draw), now)

Started(scripts, filesystems, schedules) ==
  /\ clock = StartClock
  /\ \E F \in filesystems, loaded \in schedules, script \in scripts :
       \E draw \in RandomDraws(loaded) :
         LET s == Constructed(loaded, script, F, clock, draw)
         IN  /\ files = F
             /\ actions_script = s.actions_script
             /\ schedule = s.schedule
             /\ today_key = s.today_key
             /\ today_offsets = s.today_offsets
             /\ today_fired = s.today_fired
             /\ play_queue = s.play_queue
             /\ playing = s.playing
             /\ last_seen_hour = s.last_seen_hour
             /\ last_played_hour = s.last_played_hour
             /\ action_running = s.action_running
             /\ current_action_name = s.current_action_name
             /\ manual_action_last_trigger = s.manual_action_last_trigger
             /\ step_timer_source = s.step_timer_source
             /\ idle = s.idle
             /\ timers = s.timers
             /\ tick_log = s.tick_log
             /\ hour_adds = s.hour_adds
             /\ history = IF recording THEN s.out_log ELSE <<>>
  /\ last_op = "init"

\* no lone _parse_time_field call is followed
NoFieldCall ==
  /\ field_value = <<>>
  /\ field_max = 0
  /\ field_result = Failed

\* the sequence runner of gtk-gstreamer-mp4-v9-updated.py is not followed
RunnerAtRest ==
  /\ seq_now = 0
  /\ seq_active = FALSE
  /\ seq_queue = <<>>
  /\ seq_deadline_ts = 0
  /\ seq_wait_timer_id = 0
  /\ seq_timers = {}
  /\ seq_idle = 0
  /\ seq_playing = NoPath
  /\ seq_log = [launches |-> 0, seen |-> {}, last |-> <<>>]
  /\ v9_last_played_hour = NoHour
\* ... and no startup video was found on the disk
NoSequence ==
  /\ RunnerAtRest
  /\ in_startup = FALSE
  /\ startup_queue = <<>>
  /\ startup_idle = 0

Init ==
  /\ recording = FALSE
  /\ schedule_csv = <<>>
  /\ load_result = <<>>
  /\ NoFieldCall
  /\ NoSequence
  /\ Started({ScriptPlayOnly}, {FilesHourZero}, ScheduleFiles)

\* ------------------------------------------------------------ events
\* A stamp of _manual_action_last_trigger is read only by the test
\* (now - last) < 1 s. One second later that test is false for good, so the
\* model keeps every stamp older than the window as the same value.
Expired == [day |-> -1, sec |-> 0]

\* one second passes on the wall clock
Advance ==
  /\ AbsTime(clock) + 1 < (MaxDay + 1) * SecsPerDay
  /\ LET t == AbsTime(clock) + 1
         next == [day |-> t \div SecsPerDay, sec |-> t % SecsPerDay]
     IN  /\ clock' = next
         /\ hour_adds' = IF next.day = clock.day /\ Hour(next) = Hour(clock)
                         THEN hour_adds ELSE <<>>
  /\ manual_action_last_trigger' =
       [n \in DOMAIN manual_action_last_trigger |-> Expired]
  /\ tick_log' = <<>>
  /\ last_op' = "other"
  /\ UNCHANGED <<files, schedule, today_key, today_offsets, today_fired,
                 play_queue, playing, last_seen_hour, last_played_hour,
                 actions_script, action_running, current_action_name,
                 step_timer_source, idle, timers, recording, history,
                 schedule_csv, load_result,
                 vars_field, vars_seq>>

\* the model's caps on the unbounded collections
Bounded(s) == Len(s.idle) <= MaxIdle /\ Len(s.play_queue) <= MaxQueue

\* GLib.timeout_add_seconds(1, self.tick)
Tick ==
  \E draw \in RandomDraws(schedule) :
    LET s == tick(Self, clock, draw)
    IN  /\ Bounded(s)
        /\ Commit(s, IF clock.day # today_key THEN "newday_tick" ELSE "tick")

\* key-press-event, R
ReloadSchedule ==
  \E loaded \in ScheduleFiles :
    \E draw \in RandomDraws(loaded) :
      Commit(on_key_R(Self, loaded, draw), "reload")

\* key-press-event, A
ManualTrigger ==
  LET s == on_key_A(Self, clock)
  IN  /\ Bounded(s)
      /\ Commit(s, "other")

\* bus message::eos for the file being played
OnEos ==
  /\ playing
  /\ Commit(on_eos(Self), "other")

\* bus message::error for the file being played
OnError ==
  /\ playing
  /\ Commit(on_error(Self), "other")

\* the samples a run of step idx can ask for: none unless it is a PLAY-RANDOM
SamplesFor(steps, idx) ==
  IF idx \in 1..Len(steps) /\ steps[idx].keys = 1 /\ steps[idx].op = "PLAY-RANDOM"
  THEN Samples ELSE { <<>> }

\* the main loop dispatches the oldest idle source
IdleDispatch ==
  /\ idle # <<>>
  /\ \E draw \in SamplesFor(Head(idle).steps, Head(idle).idx) :
       LET src == Head(idle)
           s0 == WithSamples([Self EXCEPT !.idle = Tail(@)], draw)
           s == IF src.kind = "hour"
                THEN enqueue_hour_video(s0, src.hour)
                ELSE run_steps_chain(s0, src.steps, src.idx, clock)
       IN  /\ Bounded(s)
           /\ Commit(s, "other")

\* a WAIT timer expires: _after_wait_continue
TimerExpire ==
  \E t \in timers :
    /\ AbsTime(clock) >= t.due
    /\ LET s == after_wait_continue([Self EXCEPT !.timers = @ \ {t}], t, clock)
       IN  /\ Bounded(s)
           /\ Commit(s, "expire")

\* a direct call of _seed_today_offsets() without force
Seed ==
  \E draw \in RandomDraws(schedule) :
    Commit(seed_today_offsets(Self, FALSE, draw),
           IF last_op \in {"seed", "seed_again"} THEN "seed_again" ELSE "seed")

Next ==
  \/ Advance
  \/ Tick
  \/ ReloadSchedule
  \/ ManualTrigger
  \/ OnEos
  \/ OnError
  \/ IdleDispatch

Spec == Init /\ [][Next]_vars

\* the player with _seed_today_offsets() also called directly, in any state
NextSeed ==
  \/ Advance
  \/ Tick
  \/ ReloadSchedule
  \/ ManualTrigger
  \/ OnEos
  \/ OnError
  \/ IdleDispatch
  \/ Seed

InitSeed ==
  /\ recording = FALSE
  /\ schedule_csv = <<>>
  /\ load_result = <<>>
  /\ NoFieldCall
  /\ NoSequence
  /\ Started({ScriptPlayOnly}, {FilesClipOnly}, ScheduleFiles)

SpecSeed == InitSeed /\ [][NextSeed]_vars

\* the player with the presses of the A key told apart from the other events,
\* the R key not pressed and no playback failing
ManualKey ==
  LET s == on_key_A(Self, clock)
  IN  /\ Bounded(s)
      /\ Commit(s, "manual")

NextKeys ==
  \/ Advance
  \/ Tick
  \/ ManualKey
  \/ OnEos
  \/ IdleDispatch

SpecKeys == InitSeed /\ [][NextKeys]_vars

\* the player started where every hour has a playable video
InitHour ==
  /\ recording = FALSE
  /\ schedule_csv = <<>>
  /\ load_result = <<>>
  /\ NoFieldCall
  /\ NoSequence
  /\ Started({ScriptPlayOnly}, {FilesHourZero, FilesFallback}, { <<EGreet, ESilent>> })

\* ... and the keys R and A are not pressed
NextHour ==
  \/ Advance
  \/ Tick
  \/ OnEos
  \/ OnError
  \/ IdleDispatch

SpecHour == InitHour /\ [][NextHour]_vars

\* ------------------------------------------------------------ a tick at every second
\* the clock moves on once the tick of this second has run
NextSecond ==
  /\ last_op \in {"tick", "newday_tick"}
  /\ Advance

\* the player started with toasts only: one early in the day, one in the
\* day's last minute
InitDaily ==
  /\ recording = FALSE
  /\ schedule_csv = <<>>
  /\ load_result = <<>>
  /\ NoFieldCall
  /\ NoSequence
  /\ Started({ScriptPlayOnly}, {FilesClipOnly, FilesHourZero}, { <<EEarly, ELate>>, <<ELate>> })

NextDaily ==
  \/ Tick
  \/ NextSecond

SpecDaily == InitDaily /\ [][NextDaily]_vars

\* ------------------------------------------------------------ the playback queue alone
\* a direct call of enqueue_file(path), as the hour video, the startup
\* sequence and the PLAY steps make it
Enqueue ==
  /\ Len(play_queue) < MaxBacklog
  /\ Len(history) < MaxEvents
  /\ \E path \in FilesClips \cup {NoPath} :
       Commit(enqueue_file(Self, path), "enqueue")

\* a file disappears from the disk
FileRemoved ==
  /\ \E path \in files : files' = files \ {path}
  /\ last_op' = "removed"
  /\ UNCHANGED <<clock, schedule, today_key, today_offsets, today_fired,
                 play_queue, playing, last_seen_hour, last_played_hour,
                 actions_script, action_running, current_action_name,
                 manual_action_last_trigger, step_timer_source, idle, timers,
                 tick_log, hour_adds, recording, history, schedule_csv, load_result,
                 vars_field, vars_seq>>

InitPlay ==
  /\ recording = TRUE
  /\ schedule_csv = <<>>
  /\ load_result = <<>>
  /\ NoFieldCall
  /\ NoSequence
  /\ Started({ScriptPlayOnly}, {FilesClips}, { <<EJitter>> })

NextPlay ==
  \/ Enqueue
  \/ OnEos
  \/ OnError
  \/ FileRemoved

SpecPlay == InitPlay /\ [][NextPlay]_vars

\* the player answers every file it was handed with end-of-stream or an error
PlayerAnswers == WF_vars(OnEos \/ OnError)
\* two of the three clips are on the disk
FilesPair == { ClipA, ClipB }
InitPlayLive ==
  /\ recording = TRUE
  /\ schedule_csv = <<>>
  /\ load_result = <<>>
  /\ NoFieldCall
  /\ NoSequence
  /\ Started({ScriptPlayOnly}, {FilesPair}, { <<EGreet, ESilent>> })
SpecPlayLive == InitPlayLive /\ [][NextPlay]_vars /\ PlayerAnswers

\* ------------------------------------------------------------ the action runner
Starts(log) == Len(SelectSeq(log, LAMBDA e : e.ev = "starting"))

\* one second passes during the first seconds of a run
Second ==
  /\ AbsTime(clock) < MaxRunSeconds
  /\ Advance

\* a call of run_action(name), as a fired schedule entry makes it, in a run
\* where at most one chain is started
RunActionAlone ==
  /\ Len(history) < MaxEvents
  /\ \E name \in (DOMAIN actions_script) \cup {"NOPE"} :
       LET s == run_action(Self, name, clock)
       IN  /\ Starts(history \o s.out_log) <= 1
           /\ Bounded(s)
           /\ Commit(s, "run_action")

\* a call of run_action(name) whatever else is running
RunAction ==
  /\ Starts(history) < MaxStarts
  /\ \E name \in {"LINEAR", "PAUSE"} :
       LET s == run_action(Self, name, clock)
       IN  /\ Bounded(s)
           /\ Commit(s, "run_action")

\* a call of _play_manual_action_once(name)
ManualOnce ==
  /\ Len(history) < MaxEvents + MaxStarts
  /\ \E name \in {"ROUGH", "PAUSE"} :
       LET s == play_manual_action_once(Self, name, clock)
       IN  /\ Starts(history \o s.out_log) <= MaxStarts
           /\ Bounded(s)
           /\ Commit(s, "manual")

\* self.actions_script is assigned the table of another script.json
TableReplaced ==
  /\ actions_script = ScriptChains
  /\ actions_script' = ScriptOther
  /\ last_op' = "retable"
  /\ history' = Append(history, Event("table_replaced", NoPath))
  /\ UNCHANGED <<clock, files, schedule, today_key, today_offsets, today_fired,
                 play_queue, playing, last_seen_hour, last_played_hour,
                 action_running, current_action_name,
                 manual_action_last_trigger, step_timer_source, idle, timers,
                 tick_log, hour_adds, recording, schedule_csv, load_result,
                 vars_field, vars_seq>>

InitChain ==
  /\ recording = TRUE
  /\ schedule_csv = <<>>
  /\ load_result = <<>>
  /\ NoFieldCall
  /\ NoSequence
  /\ Started({ScriptChains}, {FilesClips}, { <<EJitter>> })

NextChain ==
  \/ Second
  \/ RunActionAlone
  \/ IdleDispatch
  \/ TimerExpire
  \/ OnEos
  \/ OnError

SpecChain == InitChain /\ [][NextChain]_vars

\* one second passes while an armed timer waits for its time
SecondWaiting ==
  /\ \E tm \in timers : AbsTime(clock) < tm.due
  /\ Advance

NextChainLive ==
  \/ SecondWaiting
  \/ RunActionAlone
  \/ IdleDispatch
  \/ TimerExpire
  \/ OnEos

\* the main loop dispatches what is pending, time passes, and the player
\* reports the end of what it plays
MainLoopRuns ==
  /\ WF_vars(IdleDispatch)
  /\ WF_vars(TimerExpire)
  /\ WF_vars(SecondWaiting)
  /\ WF_vars(OnEos)

SpecChainLive == InitChain /\ [][NextChainLive]_vars /\ MainLoopRuns

NextOverlap ==
  \/ Second
  \/ RunAction
  \/ IdleDispatch
  \/ TimerExpire
  \/ ReloadSchedule
  \/ TableReplaced

SpecOverlap == InitChain /\ [][NextOverlap]_vars

\* ---- chains, the hour video and the startup video sharing the queue
\* the model's caps where several callers queue videos at the same time
RoomFor(s) == Len(s.idle) <= MaxStarts + 1 /\ Len(s.play_queue) <= MaxBacklog + 1

\* a call of run_action(name) whatever else is running, once for each name
RunActionMix ==
  /\ \E name \in DOMAIN actions_script :
       /\ \A k \in 1..Len(history) : history[k] # Event("starting", << name, 0 >>)
       /\ \E draw \in SamplesFor(actions_script[name], 1) :
            LET s == run_action(WithSamples(Self, draw), name, clock)
            IN  /\ RoomFor(s)
                /\ Commit(s, "run_action")

\* the main loop dispatches the oldest idle source
IdleDispatchMix ==
  /\ idle # <<>>
  /\ \E draw \in SamplesFor(Head(idle).steps, Head(idle).idx) :
       LET src == Head(idle)
           s0 == WithSamples([Self EXCEPT !.idle = Tail(@)], draw)
           s == IF src.kind = "hour"
                THEN enqueue_hour_video(s0, src.hour)
                ELSE run_steps_chain(s0, src.steps, src.idx, clock)
       IN  /\ RoomFor(s)
           /\ Commit(s, "other")

InitMix ==
  /\ recording = TRUE
  /\ schedule_csv = <<>>
  /\ load_result = <<>>
  /\ NoFieldCall
  /\ NoSequence
  /\ Started({ScriptMix}, {FilesMix}, { <<ESilent>> })

NextMix ==
  \/ RunActionMix
  \/ IdleDispatchMix
  \/ OnEos

SpecMix == InitMix /\ [][NextMix]_vars

NextManual ==
  \/ Second
  \/ ManualOnce
  \/ IdleDispatch
  \/ TimerExpire

SpecManual == InitChain /\ [][NextManual]_vars

\* a call of _play_manual_action_once(name) in a run where an action can be
\* triggered again after another one was started
ManualAgain ==
  /\ Len(history) < MaxEvents + MaxStarts
  /\ \E name \in {"ROUGH", "PAUSE"} :
       LET s == play_manual_action_once(Self, name, clock)
       IN  /\ Starts(history \o s.out_log) <= MaxStarts + 1
           /\ Bounded(s)
           /\ Commit(s, "manual")

NextAgain ==
  \/ Second
  \/ ManualAgain
  \/ IdleDispatch
  \/ TimerExpire

SpecAgain == InitChain /\ [][NextAgain]_vars

\* ------------------------------------------------------------ chains that wait
\* a call of run_action(name) whatever else is running
RunWait ==
  /\ Starts(history) < MaxStarts
  /\ \E name \in DOMAIN actions_script :
       LET s == run_action(Self, name, clock)
       IN  /\ Bounded(s)
           /\ Commit(s, "run_action")

InitWait ==
  /\ recording = TRUE
  /\ schedule_csv = <<>>
  /\ load_result = <<>>
  /\ NoFieldCall
  /\ NoSequence
  /\ Started({ScriptWaits}, {FilesClips}, { <<EGreet, ESilent>> })

NextWait ==
  \/ Second
  \/ RunWait
  \/ IdleDispatch
  \/ TimerExpire

SpecWait == InitWait /\ [][NextWait]_vars

\* ------------------------------------------------------------ chains that pick at random
\* a call of run_action(name), as a fired schedule entry makes it, in a run
\* where one chain is started
RunActionRandom ==
  /\ Starts(history) = 0
  /\ \E name \in DOMAIN actions_script :
       \E draw \in SamplesFor(actions_script[name], 1) :
         LET s == run_action(WithSamples(Self, draw), name, clock)
         IN  /\ Bounded(s)
             /\ Commit(s, "run_action")

InitRandom ==
  /\ recording = TRUE
  /\ schedule_csv = <<>>
  /\ load_result = <<>>
  /\ NoFieldCall
  /\ NoSequence
  /\ Started({ScriptRandom}, {FilesRandom}, { <<EGreet, ESilent>> })

NextRandom ==
  \/ RunActionRandom
  \/ IdleDispatch
  \/ OnEos

SpecRandom == InitRandom /\ [][NextRandom]_vars

\* ------------------------------------------------------------ load_schedule alone
\* a row is added at the end of schedule.csv; what was loaded before is
\* no longer looked at
RowAppended ==
  /\ Len(schedule_csv) < MaxRows
  /\ \E row \in CsvRows : schedule_csv' = Append(schedule_csv, row)
  /\ load_result' = <<>>
  /\ last_op' = "other"
  /\ UNCHANGED <<clock, files, schedule, today_key, today_offsets, today_fired,
                 play_queue, playing, last_seen_hour, last_played_hour,
                 actions_script, action_running, current_action_name,
                 manual_action_last_trigger, step_timer_source, idle, timers,
                 tick_log, hour_adds, recording, history,
                 vars_field, vars_seq>>

\* a call of load_schedule()
LoadSchedule ==
  /\ load_result' = load_schedule(schedule_csv)
  /\ last_op' = "load"
  /\ UNCHANGED <<clock, files, schedule, today_key, today_offsets, today_fired,
                 play_queue, playing, last_seen_hour, last_played_hour,
                 actions_script, action_running, current_action_name,
                 manual_action_last_trigger, step_timer_source, idle, timers,
                 tick_log, hour_adds, recording, history, schedule_csv,
                 vars_field, vars_seq>>

InitLoad ==
  /\ recording = FALSE
  /\ schedule_csv \in { <<>> } \cup { << row >> : row \in CsvRows }
  /\ load_result = <<>>
  /\ NoFieldCall
  /\ NoSequence
  /\ Started({ScriptPlayOnly}, {FilesClipOnly}, { <<EGreet, ESilent>> })

NextLoad ==
  \/ RowAppended
  \/ LoadSchedule

SpecLoad == InitLoad /\ [][NextLoad]_vars

\* ------------------------------------------------------------ _parse_time_field alone
\* the characters a time field is typed with
FieldChars == { "*", "/", "-", " ", "0", "1", "5", "x" }
\* the texts of at most MaxFieldLen characters
FieldTexts == UNION { [1..n -> FieldChars] : n \in 0..MaxFieldLen }
\* the max_value arguments: none to spare, the hours, the minutes
FieldMaxValues == { 0, MaxHourValue, MaxMinuteValue }

\* a call of _parse_time_field(value, max_value, label)
ParseField ==
  /\ last_op # "parse"
  /\ field_result' = parse_time_field(field_value, field_max)
  /\ last_op' = "parse"
  /\ UNCHANGED <<clock, files, schedule, today_key, today_offsets, today_fired,
                 play_queue, playing, last_seen_hour, last_played_hour,
                 actions_script, action_running, current_action_name,
                 manual_action_last_trigger, step_timer_source, idle, timers,
                 tick_log, hour_adds, recording, history, schedule_csv, load_result,
                 field_value, field_max, vars_seq>>

InitField ==
  /\ recording = FALSE
  /\ schedule_csv = <<>>
  /\ load_result = <<>>
  /\ field_value \in FieldTexts
  /\ field_max \in FieldMaxValues
  /\ field_result = Failed
  /\ NoSequence
  /\ Started({ScriptPlayOnly}, {FilesClipOnly}, { <<EGreet, ESilent>> })

NextField ==
  \/ ParseField

SpecField == InitField /\ [][NextField]_vars

\* ------------------------------------------------------------ v9: the sequence runner
\* what _deadline_remaining returns without a deadline
NoDeadlineRemaining == 1000000000
Min(a, b) == IF a <= b THEN a ELSE b
\* int(x / unit): towards zero
Trunc(x, unit) == IF x >= 0 THEN x \div unit ELSE 0 - ((0 - x) \div unit)

SeqStep(kind, value) == [kind |-> kind, value |-> value]
\* "N. Wait: M minutes" as load_sequences_script keeps it: str(mins * 60)
WaitLine(mins) == SeqStep("wait", Decimal(mins * SecondsPerMinute))
\* "RNG|a|b" as the value of a play step
Rng(a, b) == << "RNG", a, b >>
\* self.sequences: the actions with steps
Sequences ==
  [n \in {"TALK", "REST"} |->
     IF n = "TALK"
     THEN << SeqStep("toast", "hi"), SeqStep("play", Rng(ClipA, ClipB)),
             WaitLine(1), SeqStep("play", ClipB) >>
     ELSE << WaitLine(0), WaitLine(1), SeqStep("toast", "up"),
             SeqStep("play", ClipC) >>]
\* the schedule entries _launch_entry is called with: action and duration
SeqEntry(action, duration) == [action |-> action, duration |-> duration]
SeqEntries ==
  { SeqEntry("TALK", 0), SeqEntry("TALK", 5), SeqEntry("REST", 1),
    SeqEntry("REST", 3), SeqEntry("NONE", 3) }
FilesSeq == { ClipA, ClipB }

\* the runner's fields and the GLib sources, as one handler finds them;
\* ret is what _continue_sequence returned last. The log holds the number of
\* _launch_entry calls so far, the kinds of event seen since the last launch,
\* and the events of the handler that ran last, each with the time and the
\* deadline it found
SeqSelf ==
  [active |-> seq_active, queue |-> seq_queue, deadline |-> seq_deadline_ts,
   wait_id |-> seq_wait_timer_id, timers |-> seq_timers, idle |-> seq_idle,
   playing |-> seq_playing, log |-> [seq_log EXCEPT !.last = <<>>], ret |-> FALSE,
   in_startup |-> in_startup, startup_queue |-> startup_queue,
   startup_idle |-> startup_idle, last_played_hour |-> v9_last_played_hour]

SeqLog(q, ev, val, now) ==
  [q EXCEPT !.log.last = Append(@, [ev |-> ev, val |-> val, at |-> now,
                                    deadline |-> q.deadline]),
            !.log.seen = @ \cup {ev}]

v9_stop_to_clock(q) == [q EXCEPT !.playing = NoPath]

v9_play_file(q, path, exists) ==
  IF path = NoPath \/ path \notin exists
  THEN v9_stop_to_clock(q)
  ELSE [q EXCEPT !.playing = path]

\* mutant: the remaining time is rounded up to whole seconds
deadline_remaining_rounds_up(q, now) ==
  IF q.deadline = 0
  THEN NoDeadlineRemaining
  ELSE Max(0, Trunc(q.deadline - now + TicksPerSecond - 1, TicksPerSecond))

deadline_remaining(q, now) ==
  IF q.deadline = 0
  THEN NoDeadlineRemaining
  ELSE Max(0, Trunc(q.deadline - now, TicksPerSecond))

\* _end_sequence; why names the caller's reason in the log, with the number
\* of steps left
end_sequence(q, why, now) ==
  v9_stop_to_clock([SeqLog(q, why, << Len(q.queue), 0 >>, now) EXCEPT
                      !.active = FALSE, !.queue = <<>>, !.deadline = 0])

\* GLib.idle_add(self._continue_sequence), returned by _continue_sequence
seq_idle_add(q) == [q EXCEPT !.idle = @ + 1, !.ret = TRUE]

SeqFreshId(q) ==
  CHOOSE n \in 1..(Cardinality(q.timers) + 1) : \A tm \in q.timers : tm.id # n

continue_sequence(q0, exists, now) ==
  LET q == [q0 EXCEPT !.ret = FALSE]
  IN  IF ~q.active THEN q
      ELSE IF deadline_remaining(q, now) <= 0 THEN end_sequence(q, "end_late", now)
      ELSE LET q1 == [q EXCEPT !.wait_id = 0]
           IN  IF q1.queue = <<>> THEN end_sequence(q1, "end_done", now)
               ELSE LET step == Head(q1.queue)
                        q2 == [q1 EXCEPT !.queue = Tail(@)]
                    IN  CASE step.kind = "toast" ->
                               seq_idle_add(SeqLog(q2, "toast", << 0, 0 >>, now))
                          [] step.kind = "wait" ->
                               LET asked == DigitsValue(step.value, 0)
                                   wait_s == Min(asked, deadline_remaining(q2, now))
                                   id == SeqFreshId(q2)
                               IN  IF wait_s <= 0
                                   THEN seq_idle_add(SeqLog(q2, "no_wait", << asked, wait_s >>, now))
                                   ELSE [SeqLog(q2, IF wait_s < asked THEN "short_wait" ELSE "wait",
                                                << asked, wait_s >>, now) EXCEPT
                                           !.timers = @ \cup {[id |-> id,
                                                               due |-> now + wait_s * TicksPerSecond]},
                                           !.wait_id = id]
                          [] step.kind = "play" ->
                               IF deadline_remaining(q2, now) <= 1
                               THEN end_sequence(q2, "end_no_play", now)
                               ELSE v9_play_file(SeqLog(q2, "play", << 0, 0 >>, now),
                                                 step.value, exists)
                          [] OTHER -> seq_idle_add(q2)

\* the RNG picks of _launch_entry: a play step "RNG|a|b" becomes a play of one
\* of its non-empty options, and is dropped when it has none
IsRng(step) == step.kind = "play" /\ step.value[1] = "RNG"
RngSteps(steps) == { i \in 1..Len(steps) : IsRng(steps[i]) }
RECURSIVE expand_rng(_, _, _)
expand_rng(steps, i, draw) ==
  IF i > Len(steps) THEN <<>>
  ELSE IF IsRng(steps[i])
  THEN LET opts == SelectSeq(Tail(steps[i].value), LAMBDA x : x # NoPath)
       IN  IF opts = <<>>
           THEN expand_rng(steps, i + 1, draw)
           ELSE << SeqStep("play", opts[(draw[i] % Len(opts)) + 1]) >>
                  \o expand_rng(steps, i + 1, draw)
  ELSE << steps[i] >> \o expand_rng(steps, i + 1, draw)

sequence_of(table, action) == IF action \in DOMAIN table THEN table[action] ELSE <<>>

\* _launch_entry; the kinds of event seen start anew with each sequence
launch_entry(q0, table, e, draw, exists, now) ==
  LET steps == sequence_of(table, e.action)
      q == [q0 EXCEPT !.log.launches = @ + 1]
  IN  IF steps = <<>>
      THEN SeqLog(q, "no_sequence", << e.duration, 0 >>, now)
      ELSE LET q1 == [q EXCEPT !.active = TRUE,
                               !.queue = expand_rng(steps, 1, draw),
                               !.deadline = now + Max(1, e.duration) * TicksPerSecond,
                               !.log.seen = {}]
           IN  continue_sequence(SeqLog(q1, "launch", << e.duration, 0 >>, now),
                                 exists, now)

SeqCommit(q) ==
  /\ seq_active' = q.active
  /\ seq_queue' = q.queue
  /\ seq_deadline_ts' = q.deadline
  /\ seq_wait_timer_id' = q.wait_id
  /\ seq_timers' = q.timers
  /\ seq_idle' = q.idle
  /\ seq_playing' = q.playing
  /\ seq_log' = q.log
  /\ in_startup' = q.in_startup
  /\ startup_queue' = q.startup_queue
  /\ startup_idle' = q.startup_idle
  /\ v9_last_played_hour' = q.last_played_hour
  /\ UNCHANGED <<seq_now, vars_player, vars_field>>

\* time.time() moves on
SeqAdvance ==
  /\ seq_now < MaxSeqTicks
  /\ seq_now' = seq_now + 1
  /\ seq_log' = [seq_log EXCEPT !.last = <<>>]
  /\ UNCHANGED <<seq_active, seq_queue, seq_deadline_ts, seq_wait_timer_id,
                 seq_timers, seq_idle, seq_playing, in_startup, startup_queue,
                 startup_idle, v9_last_played_hour, vars_player, vars_field>>

\* a timeout of _schedule_today_events expires: _launch_entry(e)
SeqLaunch ==
  /\ seq_log.launches < MaxLaunches
  /\ \E e \in SeqEntries :
       \E draw \in [RngSteps(sequence_of(Sequences, e.action)) -> 0..MaxSample] :
         SeqCommit(launch_entry(SeqSelf, Sequences, e, draw, files, seq_now))

\* the main loop dispatches an idle source of _continue_sequence; the source
\* stays attached when the callback returned a source id
SeqIdle ==
  /\ seq_idle > 0
  /\ LET q == continue_sequence(SeqSelf, files, seq_now)
     IN  SeqCommit(IF q.ret THEN q ELSE [q EXCEPT !.idle = @ - 1])

\* a wait timer expires: _after_wait
SeqTimer ==
  \E tm \in seq_timers :
    /\ seq_now >= tm.due
    /\ SeqCommit(continue_sequence([SeqSelf EXCEPT !.timers = @ \ {tm}, !.wait_id = 0],
                                   files, seq_now))

\* the video ends: on_eos
SeqEos ==
  /\ seq_playing # NoPath
  /\ LET q0 == [SeqSelf EXCEPT !.playing = NoPath]
     IN  SeqCommit(IF q0.in_startup /\ q0.startup_queue # <<>>
                   THEN [q0 EXCEPT !.startup_idle = @ + 1]
                   ELSE LET q1 == [q0 EXCEPT !.in_startup = FALSE]
                        IN  IF q1.active
                            THEN [q1 EXCEPT !.idle = @ + 1]
                            ELSE v9_stop_to_clock(q1))

\* the pipeline reports an error: on_error
SeqError ==
  /\ seq_playing # NoPath
  /\ SeqCommit(v9_stop_to_clock(SeqLog(SeqSelf, "error", << 0, 0 >>, seq_now)))

\* ---- the startup sequence, the same in lps-c10-light.py
start_next_in_queue(q, exists) ==
  IF q.startup_queue = <<>>
  THEN [q EXCEPT !.in_startup = FALSE]
  ELSE v9_play_file([q EXCEPT !.startup_queue = Tail(@)], Head(q.startup_queue), exists)

prepare_startup_sequence(F, now) ==
  LET hello == IF HelloPath \in F THEN << HelloPath >> ELSE <<>>
      after == IF DayMsgPath(Weekday(now)) \in F
               THEN << DayMsgPath(Weekday(now)) >> ELSE <<>>
  IN  hello \o after

play_for_hour(q, hour, exists, now) ==
  IF q.in_startup
  THEN SeqLog(q, "hour_skipped", << hour, 0 >>, now)
  ELSE IF q.last_played_hour = hour
       THEN q
       ELSE LET path == path_for_hour(exists, hour)
            IN  IF path = NoPath \/ path \notin exists
                THEN v9_stop_to_clock(q)
                ELSE [SeqLog(q, "hour_played", << hour, 0 >>, now) EXCEPT
                        !.playing = path, !.last_played_hour = hour]

\* the main loop dispatches an idle source of start_next_in_queue
SeqStartupIdle ==
  /\ startup_idle > 0
  /\ SeqCommit(start_next_in_queue([SeqSelf EXCEPT !.startup_idle = @ - 1], files))

\* play_for_hour(hour), as the idle call of the constructor and a tick that
\* sees the hour change make it
SeqHour ==
  \E hour \in 0..(HoursPerDay - 1) :
    LET q == play_for_hour(SeqSelf, hour, files, seq_now)
    IN  SeqCommit(q)

\* the startup videos and the video of hour 0 are on the disk
FilesStartup == { HelloPath, DayMsgPath(Weekday(StartClock)), <<"hour", 0>> }

\* the player constructed with both startup videos found, the second of
\* which may have been removed since
InitStartup ==
  /\ recording = FALSE
  /\ schedule_csv = <<>>
  /\ load_result = <<>>
  /\ NoFieldCall
  /\ RunnerAtRest
  /\ Started({ScriptPlayOnly},
             {FilesStartup, FilesStartup \ {DayMsgPath(Weekday(StartClock))}},
             { <<EGreet, ESilent>> })
  /\ startup_queue = prepare_startup_sequence(FilesStartup, StartClock)
  /\ in_startup = (startup_queue # <<>>)
  /\ startup_idle = (IF in_startup THEN 1 ELSE 0)

NextStartup ==
  \/ SeqAdvance
  \/ SeqStartupIdle
  \/ SeqHour
  \/ SeqEos
  \/ SeqError

\* the main loop dispatches the idle sources, and the pipeline answers what
\* it plays with end-of-stream or an error
StartupLoopRuns ==
  /\ WF_vars(SeqStartupIdle)
  /\ WF_vars(SeqEos \/ SeqError)

SpecStartup == InitStartup /\ [][NextStartup]_vars /\ StartupLoopRuns

InitSeq ==
  /\ recording = FALSE
  /\ schedule_csv = <<>>
  /\ load_result = <<>>
  /\ NoFieldCall
  /\ NoSequence
  /\ Started({ScriptPlayOnly}, {FilesSeq}, { <<EGreet, ESilent>> })

NextSeq ==
  \/ SeqAdvance
  \/ SeqLaunch
  \/ SeqIdle
  \/ SeqTimer
  \/ SeqEos
  \/ SeqError

SpecSeq == InitSeq /\ [][NextSeq]_vars

\* ---- one sequence under a running main loop
\* time.time() moves on, during the ticks observed and for as long as a wait
\* timer is not yet due
SeqAdvanceWaiting ==
  /\ seq_now < MaxSeqTicks \/ \E tm \in seq_timers : seq_now < tm.due
  /\ seq_now' = seq_now + 1
  /\ seq_log' = [seq_log EXCEPT !.last = <<>>]
  /\ UNCHANGED <<seq_active, seq_queue, seq_deadline_ts, seq_wait_timer_id,
                 seq_timers, seq_idle, seq_playing, in_startup, startup_queue,
                 startup_idle, v9_last_played_hour, vars_player, vars_field>>

\* the one timeout of _schedule_today_events that expires in the run
SeqLaunchOnce ==
  /\ seq_log.launches = 0
  /\ SeqLaunch

\* the runner started where both clips of the sequences exist, or one
\* only; no hour has a video
InitSeqLive ==
  /\ recording = FALSE
  /\ schedule_csv = <<>>
  /\ load_result = <<>>
  /\ NoFieldCall
  /\ NoSequence
  /\ Started({ScriptPlayOnly}, {FilesSeq, {ClipA}}, { <<EGreet, ESilent>> })

NextSeqLive ==
  \/ SeqAdvanceWaiting
  \/ SeqLaunchOnce
  \/ SeqIdle
  \/ SeqTimer
  \/ SeqEos
  \/ SeqError
  \/ SeqHour

\* the main loop dispatches idle sources and timers, time passes, the
\* pipeline answers what it plays with end-of-stream or an error, and the
\* ticks go on calling play_for_hour
SeqLoopRuns ==
  /\ WF_vars(SeqIdle)
  /\ WF_vars(SeqTimer)
  /\ WF_vars(SeqAdvanceWaiting)
  /\ WF_vars(SeqEos \/ SeqError)
  /\ WF_vars(SeqHour)

SpecSeqLive == InitSeqLive /\ [][NextSeqLive]_vars /\ SeqLoopRuns

\* ------------------------------------------------------------ properties
TickStep == last_op' \in {"tick", "newday_tick"}
SeedStep == last_op' \in {"seed", "seed_again"}
LogIdx(log) == { log[k].idx : k \in 1..Len(log) }

\* the fired flag of entry i as the scheduler pass of this tick finds it
MidFired(i) ==
  IF clock.day # today_key THEN FALSE ELSE DictGet(today_fired, i, FALSE)

\* the fire condition of entry i on the snapshot this tick evaluates
FireCondition(i) ==
  /\ Weekday(clock) \in schedule[i].days
  /\ ~MidFired(i)
  /\ clock = fire_dt(clock, schedule[i], DictGet(today_offsets', i, 0))

\* C1: a tick on an unchanged date skips every entry whose fired flag is
\* already set, and leaves the flag set: no entry fires twice on a date.
C1_FiredEntrySkipped ==
  [][ (last_op' = "tick") =>
        \A i \in DOMAIN today_fired :
          today_fired[i] =>
            /\ DictGet(today_fired', i, FALSE)
            /\ i \notin LogIdx(tick_log') ]_vars

\* a tick in the very second of the fire instant that skipped a fired entry
C1_Witness ==
  /\ last_op = "tick"
  /\ tick_log = <<>>
  /\ \E i \in 1..Len(schedule) :
       /\ DictGet(today_fired, i, FALSE)
       /\ Weekday(clock) \in schedule[i].days
       /\ clock = fire_dt(clock, schedule[i], DictGet(today_offsets, i, 0))

\* C2 (as claimed): outside a tick that observes a date change, no step
\* resets a fired flag.
C2_FiredResetOnlyByDateChange ==
  [][ (last_op' # "newday_tick") =>
        \A i \in DOMAIN today_fired :
          today_fired[i] => DictGet(today_fired', i, FALSE) ]_vars

\* C3 (as claimed): outside a tick that observes a date change, no step
\* changes an assigned offset.
C3_OffsetChangedOnlyByDateChange ==
  [][ (last_op' # "newday_tick") =>
        \A i \in DOMAIN today_offsets :
          i \in DOMAIN today_offsets' /\ today_offsets'[i] = today_offsets[i] ]_vars

\* C3 (amended): an assigned offset is changed only by a tick that observes
\* a date change or by a schedule reload; ticks on the same date, seeding
\* calls, manual triggers and playback events leave it as it is.
C3_OffsetChangedOnlyByDateChangeOrReload ==
  [][ (last_op' \notin {"newday_tick", "reload"}) =>
        \A i \in DOMAIN today_offsets :
          i \in DOMAIN today_offsets' /\ today_offsets'[i] = today_offsets[i] ]_vars

\* a seeding call has run on a sampled, non-zero offset
C3_Witness ==
  /\ last_op \in {"seed", "seed_again"}
  /\ \E i \in DOMAIN today_offsets : today_offsets[i] > 0

\* C4 (as claimed): after a tick, every entry flagged for today whose fire
\* instant lies on today's date at or before now has fired.
C4_FiresAtOrAfterInstant ==
  (last_op \in {"tick", "newday_tick"}) =>
    \A i \in 1..Len(schedule) :
      LET f == fire_dt(clock, schedule[i], DictGet(today_offsets, i, 0))
      IN  (Weekday(clock) \in schedule[i].days /\ f.day = clock.day /\ f.sec <= clock.sec)
            => DictGet(today_fired, i, FALSE)

\* C5: a tick sets the fired flag of exactly the entries whose fire condition
\* holds, shows the toast of such an entry iff its text is non-empty and runs
\* its action iff its name is non-empty; the other entries keep their flag
\* and get neither toast nor action.
C5_TickEffectPerEntry ==
  [][ TickStep =>
        \A i \in 1..Len(schedule) :
          LET e == schedule[i]
              want == Fired(i, IF e.text # "" THEN <<e.text>> ELSE <<>>,
                               IF e.action # "" THEN <<e.action>> ELSE <<>>)
          IN  IF FireCondition(i)
              THEN /\ DictGet(today_fired', i, FALSE)
                   /\ Cardinality({ k \in 1..Len(tick_log') : tick_log'[k].idx = i }) = 1
                   /\ \E k \in 1..Len(tick_log') : tick_log'[k] = want
              ELSE /\ DictGet(today_fired', i, FALSE) = MidFired(i)
                   /\ i \notin LogIdx(tick_log') ]_vars

\* a tick fired one entry with a toast and one without
C5_Witness ==
  /\ last_op \in {"tick", "newday_tick"}
  /\ \E k \in 1..Len(tick_log) : tick_log[k].toasts # <<>> /\ tick_log[k].actions # <<>>
  /\ \E k \in 1..Len(tick_log) : tick_log[k].toasts = <<>>

\* C6: the entries a tick fires are exactly those whose fire condition holds
\* on the snapshot taken before the first entry is evaluated, and they fire
\* in ascending index order.
C6_IndexOrderOnOneSnapshot ==
  [][ TickStep =>
        /\ \A k \in 1..(Len(tick_log') - 1) : tick_log'[k].idx < tick_log'[k + 1].idx
        /\ LogIdx(tick_log') = { i \in 1..Len(schedule) : FireCondition(i) } ]_vars

\* a tick fired entries 1 and 2, the first of which started an action chain
C6_Witness ==
  /\ Len(tick_log) = 2
  /\ tick_log[1].idx = 1
  /\ tick_log[2].idx = 2
  /\ idle # <<>> /\ idle[Len(idle)].kind = "chain"

\* C7: after every tick the last-seen date is the tick's date; a tick on an
\* unchanged date keeps the offsets and clears no fired flag; a tick on a new
\* date leaves offsets and flags defined for the schedule's indices, with a
\* flag set only for the entries that fired in this same tick.
C7_DayRollover ==
  [][ TickStep =>
        /\ today_key' = clock.day
        /\ (clock.day = today_key) =>
             /\ today_offsets' = today_offsets
             /\ DOMAIN today_fired' = DOMAIN today_fired
             /\ \A i \in DOMAIN today_fired : today_fired[i] => today_fired'[i]
        /\ (clock.day # today_key) =>
             /\ DOMAIN today_offsets' = 1..Len(schedule)
             /\ DOMAIN today_fired' = 1..Len(schedule)
             /\ \A i \in 1..Len(schedule) :
                  today_fired'[i] <=> i \in LogIdx(tick_log') ]_vars

\* a tick that observed the new date fired an entry in that same tick
C7_Witness ==
  /\ last_op = "newday_tick"
  /\ today_key = clock.day
  /\ tick_log # <<>>

\* C8 (as claimed): among the ticks and the startup idle call that fall in
\* one clock hour, at most one adds an hour video to the queue or the player.
C8_OneHourVideoPerClockHour == Len(hour_adds) <= 1

\* C9: a seeding call that follows a seeding call at once changes neither
\* map: no offset is sampled again.
C9_SeedIdempotent ==
  [][ (last_op' = "seed_again") =>
        /\ today_offsets' = today_offsets
        /\ today_fired' = today_fired ]_vars

\* two seeding calls in a row on an entry with a jitter bound
C9_Witness ==
  /\ last_op = "seed_again"
  /\ \E i \in 1..Len(schedule) : schedule[i].random > 0

\* C10 (as claimed): a seeding call leaves the offset and the fired flag of
\* every index already present as they are.
C10_SeedKeepsPresentIndices ==
  [][ SeedStep =>
        \A i \in DOMAIN today_offsets :
          /\ DictGet(today_offsets', i, -1) = today_offsets[i]
          /\ DictGet(today_fired', i, FALSE) = DictGet(today_fired, i, FALSE) ]_vars

\* C25: in every state of the running player the offsets and the fired flags
\* are defined for exactly the indices of the current schedule, and every
\* offset lies within 0..max(0, jitter bound), so it is 0 where the bound is
\* 0 or below.
C25_DailyStateCoversSchedule ==
  /\ DOMAIN today_offsets = 1..Len(schedule)
  /\ DOMAIN today_fired = 1..Len(schedule)
  /\ \A i \in 1..Len(schedule) :
       /\ 0 <= today_offsets[i]
       /\ today_offsets[i] <= Max(0, schedule[i].random)
       /\ (schedule[i].random <= 0) => today_offsets[i] = 0

\* on the second day the schedule with an entry of negative bound was loaded
\* again
C25_Witness ==
  /\ last_op = "reload"
  /\ today_key = 0
  /\ clock.day = 1
  /\ Len(schedule) = 2
  /\ schedule[2].random < 0
  /\ today_offsets[2] = 0

\* C28: right after a reload by the R key every fired flag is false and the
\* offsets are defined, within their bounds, for exactly the indices of the
\* schedule just loaded, while the playback queue, the playing flag, the two
\* hour markers, the last-seen date and the manual triggers' time stamps are
\* as before; the reload ends normally in whatever state it is made.
C28_ReloadResetsDailyStateOnly ==
  [][ (last_op' = "reload") =>
        /\ DOMAIN today_fired' = 1..Len(schedule')
        /\ DOMAIN today_offsets' = 1..Len(schedule')
        /\ \A i \in 1..Len(schedule') :
             /\ ~today_fired'[i]
             /\ today_offsets'[i] \in 0..Max(0, schedule'[i].random)
        /\ UNCHANGED <<play_queue, playing, last_seen_hour, last_played_hour,
                       manual_action_last_trigger, today_key>> ]_vars

\* a reload to a shorter schedule was made while a video was playing, another
\* was queued, an entry had fired and the A key had been pressed
C28_Witness ==
  /\ last_op = "reload"
  /\ Len(schedule) = 1
  /\ playing
  /\ play_queue # <<>>
  /\ last_played_hour # NoHour
  /\ DOMAIN manual_action_last_trigger # {}

\* C29: a manual trigger, accepted or not, leaves every fired flag and every
\* offset as it is; a tick leaves the manual triggers' time stamps as they
\* are and runs the action of every entry it fires, whatever those stamps say.
C29_ManualAndDailyIndependent ==
  [][ /\ (last_op' = "manual") => UNCHANGED <<today_fired, today_offsets>>
      /\ TickStep =>
           /\ manual_action_last_trigger' = manual_action_last_trigger
           /\ \A i \in 1..Len(schedule) :
                (FireCondition(i) /\ DictGet(actions_script, schedule[i].action, <<>>) # <<>>) =>
                  /\ action_running'
                  /\ \E k \in 1..Len(idle') :
                       /\ idle'[k] = ChainSource(actions_script[schedule[i].action], 2)
                       /\ (k > Len(idle) \/ idle[k] # idle'[k]) ]_vars

\* a tick ran the action of the A key in the second in which the A key had
\* been accepted
C29_Witness ==
  /\ last_op = "tick"
  /\ \E k \in 1..Len(tick_log) : tick_log[k].actions = << "ACT_A_KEY_ACTION" >>
  /\ "ACT_A_KEY_ACTION" \in DOMAIN manual_action_last_trigger
  /\ manual_action_last_trigger["ACT_A_KEY_ACTION"] = clock
  /\ action_running

\* ---- properties of the playback queue
\* what the step at hand appended to the history
NewEvents == SubSeq(history', Len(history) + 1, Len(history'))
EventVals(log, evs) ==
  LET kept == SelectSeq(log, LAMBDA e : e.ev \in evs)
  IN  [k \in 1..Len(kept) |-> kept[k].val]
CompletionStep ==
  NewEvents # <<>> /\ NewEvents[1].ev \in {"play", "not_found", "stop_to_clock"}

\* C11: enqueue_file of an existing path, when nothing is playing, hands the
\* path to the player, sets playing and leaves the queue as it is; when
\* something is playing it appends the path to the queue's tail and hands
\* nothing to the player.
C11_EnqueuePlaysOrAppends ==
  [][ (NewEvents # <<>> /\ NewEvents[1].ev = "enqueue") =>
        LET path == NewEvents[1].val
        IN  /\ path \in files
            /\ playing'
            /\ IF ~playing
               THEN /\ play_queue' = play_queue
                    /\ NewEvents = << Event("enqueue", path), Event("play", path) >>
               ELSE /\ play_queue' = Append(play_queue, path)
                    /\ NewEvents = << Event("enqueue", path) >> ]_vars

\* a path was appended behind another one while a third was playing
C11_Witness ==
  /\ last_op = "enqueue"
  /\ playing
  /\ Len(play_queue) = 2
  /\ history[Len(history)] = Event("enqueue", play_queue[2])

\* C12: a finished or failed playback with a non-empty queue removes the head
\* and plays it, playing staying true; with an empty queue playing becomes
\* false and the clock is shown; and at every moment the paths handled so far
\* followed by the queue are the accepted paths in their order of arrival.
C12_FifoOrder ==
  [][ /\ (CompletionStep /\ play_queue # <<>> /\ Head(play_queue) \in files) =>
           /\ playing'
           /\ play_queue' = Tail(play_queue)
           /\ NewEvents = << Event("play", Head(play_queue)) >>
      /\ (CompletionStep /\ play_queue = <<>>) =>
           /\ ~playing'
           /\ play_queue' = <<>>
           /\ NewEvents = << Event("stop_to_clock", NoPath) >>
      /\ EventVals(history', {"play", "not_found"}) \o play_queue'
           = EventVals(history', {"enqueue"}) ]_vars

\* three different paths were played, two of which had waited in the queue
\* together
C12_Witness ==
  /\ Cardinality({ history[k].val : k \in { j \in 1..Len(history) : history[j].ev = "play" } }) = 3
  /\ Len(history) >= 4
  /\ history[3].ev = "enqueue"
  /\ history[4].ev = "enqueue"

\* the queue as a failed playback leaves it: the missing heads dropped
RECURSIVE AfterMissing(_, _)
AfterMissing(q, F) ==
  IF q = <<>> \/ Head(q) \in F THEN q ELSE AfterMissing(Tail(q), F)

\* C13 (as claimed): a missing path, met at enqueue time or when popped,
\* leaves the queue and the playing flag as a failed playback does: the next
\* existing queued path is played, or playing becomes false.
C13_MissingIsPlaybackFailure ==
  [][ ( \/ (NewEvents # <<>> /\ NewEvents[1].ev = "skipping")
        \/ (CompletionStep /\ play_queue # <<>> /\ Head(play_queue) \notin files) ) =>
        LET rest == AfterMissing(play_queue, files)
        IN  /\ playing' = (rest # <<>>)
            /\ play_queue' = IF rest = <<>> THEN <<>> ELSE Tail(rest) ]_vars

\* C13 (amended): a missing path met at enqueue time is dropped and changes
\* neither the queue nor the playing flag nor what is playing; a missing path
\* popped from the queue is passed over as a failed playback is: the next
\* existing queued path is played, or playing becomes false and the clock shows.
C13_MissingSkippedOrFailure ==
  [][ /\ (NewEvents # <<>> /\ NewEvents[1].ev = "skipping") =>
           /\ NewEvents[1].val \notin files
           /\ Len(NewEvents) = 1
           /\ playing' = playing
           /\ play_queue' = play_queue
      /\ (CompletionStep /\ play_queue # <<>> /\ Head(play_queue) \notin files) =>
           LET rest == AfterMissing(play_queue, files)
               gone == Len(play_queue) - Len(rest)
           IN  /\ playing' = (rest # <<>>)
               /\ play_queue' = IF rest = <<>> THEN <<>> ELSE Tail(rest)
               /\ Len(NewEvents) = gone + 1
               /\ \A k \in 1..gone : NewEvents[k] = Event("not_found", play_queue[k])
               /\ NewEvents[gone + 1] =
                    IF rest = <<>> THEN Event("stop_to_clock", NoPath)
                    ELSE Event("play", Head(rest)) ]_vars

\* a path was dropped at enqueue time during a playback, and a popped path
\* that had disappeared was passed over for the one behind it
C13_Witness ==
  /\ \E k \in 2..Len(history) :
       /\ history[k].ev = "skipping"
       /\ history[k - 1].ev \in {"play", "enqueue"}
  /\ \E k \in 1..(Len(history) - 1) :
       history[k].ev = "not_found" /\ history[k + 1].ev = "play"
  /\ playing

\* ---- properties of the action runner
IsPrefix(a, b) == Len(a) <= Len(b) /\ a = SubSeq(b, 1, Len(a))
\* what an action chain does, without the player's own events
ChainRun(log) ==
  SelectSeq(log, LAMBDA e : e.ev \in {"starting", "enqueue", "skipping", "wait", "wait_over",
                                      "toast", "malformed_step", "unknown_op", "finished"})
LinearRun ==
  << Event("starting", <<"LINEAR", 0>>), Event("enqueue", ClipA),
     Event("wait", <<"minutes", 1>>), Event("wait_over", <<"step", 3>>),
     Event("toast", ToastX), Event("enqueue", ClipB),
     Event("finished", <<"LINEAR", 0>>) >>
RoughRun ==
  << Event("starting", <<"ROUGH", 0>>), Event("enqueue", ClipA),
     Event("malformed_step", <<"step", 2>>), Event("unknown_op", <<"step", 3>>),
     Event("enqueue", ClipB), Event("finished", <<"ROUGH", 0>>) >>

\* C14: the chain [PLAY A, WAIT 1, TOAST x, PLAY B], run alone, enqueues A in
\* the call that starts it, arms a timer of the WAIT's length, shows the toast
\* only once that timer has expired, enqueues B only after the toast, and has
\* requested exactly the playbacks A, B, in this order, when it finishes.
C14_LinearChainOrder ==
  [][ (ChainRun(history') # <<>> /\ ChainRun(history')[1] = LinearRun[1]) =>
        /\ IsPrefix(ChainRun(history'), LinearRun)
        /\ (NewEvents # <<>> /\ NewEvents[1] = LinearRun[1]) =>
             (Len(NewEvents) >= 2 /\ NewEvents[2] = Event("enqueue", ClipA))
        /\ (NewEvents # <<>> /\ NewEvents[1].ev = "wait") =>
             \E t \in timers' :
               /\ t.id = step_timer_source'
               /\ t.due = AbsTime(clock) + 1 * SecondsPerMinute
        /\ (NewEvents # <<>> /\ NewEvents[1].ev = "wait_over") =>
             \E t \in timers : t \notin timers' /\ AbsTime(clock) >= t.due
        /\ (ChainRun(history') = LinearRun) =>
             /\ EventVals(history', {"enqueue"}) = << ClipA, ClipB >>
             /\ IsPrefix(EventVals(history', {"play"}), << ClipA, ClipB >>) ]_vars

\* the chain has finished and the player was handed A, then B
C14_Witness ==
  /\ ChainRun(history) = LinearRun
  /\ EventVals(history, {"play"}) = << ClipA, ClipB >>
  /\ ~action_running

\* C15: run_action of a name that the table lacks or maps to no steps changes
\* neither the running flag, the tracked name, the timer handle, the queue nor
\* the playing flag, and runs no step.
C15_UnknownActionNoOp ==
  [][ (NewEvents # <<>> /\ NewEvents[1].ev = "unknown_or_empty") =>
        /\ DictGet(actions_script, NewEvents[1].val[1], <<>>) = <<>>
        /\ Len(NewEvents) = 1
        /\ UNCHANGED <<action_running, current_action_name, step_timer_source,
                       play_queue, playing, idle, timers>> ]_vars

\* both an absent name and an empty step list were started while a chain was
\* waiting on its timer
C15_Witness ==
  /\ action_running
  /\ step_timer_source # 0
  /\ Len(history) >= 2
  /\ history[Len(history)] = Event("unknown_or_empty", <<"EMPTY", 0>>)
  /\ history[Len(history) - 1] = Event("unknown_or_empty", <<"NOPE", 0>>)

\* C16: a malformed step and a step with an unknown operation change neither
\* the queue, the playing flag, the timers nor the chain's bookkeeping and show
\* no toast; the chain goes on with the next step, so that the well-formed
\* steps behind them are run and the chain finishes.
C16_BadStepSkipped ==
  [][ /\ (NewEvents # <<>> /\ NewEvents[1].ev \in {"malformed_step", "unknown_op"}) =>
           /\ idle # <<>>
           /\ Head(idle).kind = "chain"
           /\ Len(NewEvents) = 1
           /\ idle' = Append(Tail(idle), ChainSource(Head(idle).steps, Head(idle).idx + 1))
           /\ UNCHANGED <<play_queue, playing, timers, step_timer_source,
                          action_running, current_action_name>>
      /\ (ChainRun(history') # <<>> /\ ChainRun(history')[1] = RoughRun[1]) =>
           IsPrefix(ChainRun(history'), RoughRun) ]_vars

\* the chain with the two bad steps has finished
C16_Witness ==
  /\ ChainRun(history) = RoughRun
  /\ ~action_running

\* C17 (as claimed): a pending wait timer goes away only by expiring: no step
\* of another chain cancels it.
C17_WaitTimersIndependent ==
  [][ \A t \in timers :
        t \in timers' \/ (NewEvents # <<>> /\ NewEvents[1].ev = "wait_over") ]_vars

\* C18: a manual trigger reaches run_action only if the last accepted trigger
\* of the same name is at least one second old; a trigger within one second of
\* it is ignored and changes nothing; the time stamp of another name never
\* makes a trigger be ignored as a repeat.
C18_ManualDebounce ==
  [][ (last_op' = "manual") =>
        LET e == NewEvents[1]
            n == e.val[1]
            recent == /\ n \in DOMAIN manual_action_last_trigger
                      /\ AbsTime(clock) - AbsTime(manual_action_last_trigger[n]) < 1
        IN  /\ (e.ev \in {"starting", "unknown_or_empty"}) =>
                 (~recent /\ manual_action_last_trigger'[n] = clock)
            /\ (e.ev = "ignoring_repeat") <=> recent
            /\ (e.ev = "ignoring_repeat") =>
                 /\ Len(NewEvents) = 1
                 /\ UNCHANGED <<manual_action_last_trigger, action_running,
                                current_action_name, step_timer_source, timers,
                                idle, play_queue, playing>> ]_vars

\* two names were accepted within one second and a repeat of one was ignored
C18_Witness ==
  /\ last_op = "manual"
  /\ history[Len(history)].ev = "ignoring_repeat"
  /\ DOMAIN manual_action_last_trigger = {"ROUGH", "PAUSE"}
  /\ \A n \in DOMAIN manual_action_last_trigger : manual_action_last_trigger[n] = clock

\* C19: a schedule reload and a replacement of the action table leave the
\* pending wait timers and chain callbacks as they are, and a chain whose wait
\* expires goes on with the step of the list it was started with.
C19_ChainKeepsCapturedSteps ==
  [][ /\ (last_op' \in {"reload", "retable"}) =>
           UNCHANGED <<timers, idle, step_timer_source>>
      /\ (NewEvents # <<>> /\ NewEvents[1].ev = "wait_over") =>
           \E t \in timers :
             /\ t \notin timers'
             /\ t.idx <= Len(t.steps)
             /\ LET st == t.steps[t.idx]
                IN  /\ Len(NewEvents) >= 2
                    /\ (st.op = "PLAY" /\ st.val \in files) =>
                         NewEvents[2] = Event("enqueue", st.val)
                    /\ (st.op = "TOAST-MESSAGE") =>
                         NewEvents[2] = Event("toast", st.val) ]_vars

\* the table was replaced while a chain was waiting, and the chain then went
\* on with a step of its own list
C19_Witness ==
  /\ actions_script = ScriptOther
  /\ \E k \in 1..Len(history) : \E j \in (k + 1)..(Len(history) - 1) :
       /\ history[k].ev = "table_replaced"
       /\ history[j].ev = "wait_over"
       /\ history[j + 1] \in { Event("enqueue", ClipC), Event("toast", ToastX) }
       /\ \E i \in 1..(k - 1) : history[i].ev = "wait"

\* ---- properties of PLAY-RANDOM
\* the paths each pattern stands for, written down by hand
Picks(pattern) ==
  CASE pattern = PatternClip ->
         { ClipName(<< "1" >>), ClipName(<< "2" >>), ClipName(<< "3" >>) }
    [] pattern = PatternBackwards ->
         { << "v", "_", "9" >>, << "v", "_", "1", "0" >>, << "v", "_", "1", "1" >> }
    [] pattern = PatternTwice -> { << "0", "-", "5" >>, << "1", "-", "5" >> }
    [] OTHER -> { pattern }

\* C24: the path a PLAY-RANDOM step passes to enqueue_file is its pattern
\* with every range token [a..b] or [a.b] replaced by one number of
\* min(a,b)..max(a,b) and nothing else changed; for clip_[1..3].mp4 it is
\* clip_1.mp4, clip_2.mp4 or clip_3.mp4.
C24_PlayRandomInRange ==
  [][ /\ (NewEvents # <<>> /\ NewEvents[1].ev = "starting") =>
           LET first == actions_script[NewEvents[1].val[1]][1]
           IN  (first.op = "PLAY-RANDOM") =>
                 /\ Len(NewEvents) >= 2
                 /\ NewEvents[2].ev \in {"enqueue", "skipping"}
                 /\ NewEvents[2].val \in Picks(first.val)
      /\ (NewEvents # <<>> /\ NewEvents[1].ev \in {"enqueue", "skipping"}) =>
           /\ idle # <<>>
           /\ Head(idle).kind = "chain"
           /\ Head(idle).steps[Head(idle).idx].op = "PLAY-RANDOM"
           /\ NewEvents[1].val \in Picks(Head(idle).steps[Head(idle).idx].val)
      /\ \A k \in 1..Len(history') :
           (history'[k].ev \in {"enqueue", "skipping"}) =>
             history'[k].val \in Picks(PatternClip) \cup Picks(PatternBackwards)
                                  \cup Picks(PatternTwice) \cup Picks(PatternNoRange) ]_vars

\* clip_2.mp4, which is missing, and the lower end of a range written
\* backwards were picked
C24_Witness ==
  /\ \E k \in 1..Len(history) : history[k] = Event("skipping", ClipName(<< "2" >>))
  /\ \E k \in 1..Len(history) : history[k] = Event("skipping", << "v", "_", "9" >>)

\* ---- properties of load_schedule
\* What each row means by the grammar of the time fields: the hours and the
\* minutes it stands for (none when the row is invalid), written down by hand.
Every(n, max_value) == { k \in 0..max_value : k % n = 0 }
Meant(row) ==
  CASE row = RowStepped -> [hours |-> {0, 6, 12, 18}, minutes |-> {0, 20, 40},
                            days |-> {0, 1, 2, 3, 4}, random |-> 5, duration |-> 60,
                            text |-> "stretch", action |-> "ACT_STRETCH", data |-> "FF"]
    [] row = RowSingle -> [hours |-> {7}, minutes |-> {0},
                           days |-> {5, 6}, random |-> 0, duration |-> 0,
                           text |-> "", action |-> "ACT_WAKE", data |-> "FF"]
    [] row = RowEveryHour -> [hours |-> Every(1, 23), minutes |-> {30},
                              days |-> {0, 1, 2, 3, 4}, random |-> 0, duration |-> 1,
                              text |-> "half", action |-> "", data |-> "FF"]
    [] row = RowEveryMinute -> [hours |-> {9}, minutes |-> Every(1, 59),
                                days |-> {5, 6}, random |-> 0, duration |-> 0,
                                text |-> "", action |-> "ACT_TICK", data |-> ""]
    [] row = RowPadded -> [hours |-> {23}, minutes |-> {59},
                           days |-> {0, 1, 2, 3, 4}, random |-> 15, duration |-> 600,
                           text |-> "late", action |-> "ACT_LATE", data |-> "FF"]
    [] OTHER -> [hours |-> {}, minutes |-> {},
                 days |-> {}, random |-> 0, duration |-> 0,
                 text |-> "", action |-> "", data |-> ""]
Count(row) == Cardinality(Meant(row).hours) * Cardinality(Meant(row).minutes)
RECURSIVE CountBefore(_, _)
CountBefore(rows, i) == IF i <= 1 THEN 0 ELSE CountBefore(rows, i - 1) + Count(rows[i - 1])

\* C20: a load returns, for each valid row and in row order, one contiguous
\* block of |hours| x |minutes| entries, one per (hour, minute) pair of the
\* product, each within 0..23 x 0..59 and each carrying the row's weekday
\* flags, jitter bound, duration, toast text, action name and tag.
C20_RowExpansion ==
  (last_op = "load") =>
    /\ Len(load_result) = CountBefore(schedule_csv, Len(schedule_csv) + 1)
    /\ \A i \in 1..Len(schedule_csv) :
         LET m == Meant(schedule_csv[i])
             first == CountBefore(schedule_csv, i) + 1
             last == CountBefore(schedule_csv, i + 1)
         IN  /\ { <<load_result[k].hour, load_result[k].minute>> : k \in first..last }
                  = m.hours \X m.minutes
             /\ \A k \in first..last :
                  /\ load_result[k].hour \in 0..23
                  /\ load_result[k].minute \in 0..59
                  /\ load_result[k].days = m.days
                  /\ load_result[k].random = m.random
                  /\ load_result[k].duration = m.duration
                  /\ load_result[k].text = m.text
                  /\ load_result[k].action = m.action
                  /\ load_result[k].data = m.data

\* a file of two valid rows was loaded, the first with several hours and
\* several minutes
C20_Witness ==
  /\ last_op = "load"
  /\ schedule_csv = << RowStepped, RowEveryMinute >>
  /\ Len(load_result) = 72

\* the members of a set of hours or minutes, ascending
Ascending(S) == SelectSeq([k \in 1..(MaxMinuteValue + 1) |-> k - 1], LAMBDA x : x \in S)
\* the entries a row stands for, the minutes of an hour before the next hour
Expected(row) ==
  LET m == Meant(row)
      H == Ascending(m.hours)
      M == Ascending(m.minutes)
  IN  [n \in 1..(Len(H) * Len(M)) |->
         ScheduleEntry(m.days, H[((n - 1) \div Len(M)) + 1], M[((n - 1) % Len(M)) + 1],
                       m.random, m.duration, m.text, m.action, m.data)]
RECURSIVE ExpectedLoad(_)
ExpectedLoad(rows) ==
  IF rows = <<>> THEN <<>> ELSE Expected(Head(rows)) \o ExpectedLoad(Tail(rows))
\* the rows with a field that does not parse: an hour above 23, a step of 0,
\* a step that is no number, a weekday flag, a jitter bound and a duration
\* that are no numbers, a minute above 59 behind a valid hour expression
BadRows ==
  { RowHourTooBig, RowStepZero, RowBadStep, RowBadFlag, RowBadJitter,
    RowBadDuration, RowBadMinute }

\* C23: a row with a field that fails to parse adds no entry, not even those
\* of the fields that did parse, and the rows before and after it are loaded
\* in order: the load returns what the other rows stand for, row after row.
C23_BadRowSkipped ==
  (last_op = "load" /\ \E i \in 1..Len(schedule_csv) : schedule_csv[i] \in BadRows) =>
    /\ \A i \in 1..Len(schedule_csv) :
         (schedule_csv[i] \in BadRows) => Expected(schedule_csv[i]) = <<>>
    /\ load_result = ExpectedLoad(schedule_csv)
    /\ load_result =
         ExpectedLoad(SelectSeq(schedule_csv, LAMBDA row : row \notin BadRows))

\* a row whose hours parse and whose minute does not stood between two valid
\* rows, and only these two were loaded
C23_Witness ==
  /\ last_op = "load"
  /\ schedule_csv = << RowSingle, RowBadMinute, RowPadded >>
  /\ Len(load_result) = 2
  /\ load_result[1].action = "ACT_WAKE"
  /\ load_result[2].action = "ACT_LATE"

\* ---- properties of _parse_time_field
\* How texts are written, by the grammar of the time fields: a text is read
\* off this table, never off the parser.
Spaces(k) == [i \in 1..k |-> " "]
Zeros(k) == [i \in 1..k |-> "0"]
\* the numbers written with the characters at hand, and their lengths
Numbers ==
  { n \in 0..(10 ^ MaxFieldLen - 1) :
      \A k \in 1..Len(Decimal(n)) : Decimal(n)[k] \in FieldChars }
\* a number as int() accepts it: a minus sign or none, zeros, the digits
Numeral(minus, z, n) == (IF minus = 1 THEN << "-" >> ELSE <<>>) \o Zeros(z) \o Decimal(n)
\* every text of at most MaxFieldLen characters that is a number ("literal")
\* or a star, a slash and a number ("step"), with the number it stands for
Readings ==
  LET L == MaxFieldLen
      shapes == { x \in (0..1) \X (0..L) \X (0..L) \X (0..1) \X (0..L) \X Numbers \X (0..L) :
                    /\ 2 * x[1] + x[2] + x[3] + x[4] + x[5] + x[7] < L
                    /\ 2 * x[1] + x[2] + x[3] + x[4] + x[5] + Len(Decimal(x[6])) + x[7] <= L
                    /\ (x[1] = 0) => (x[3] = 0) }
  IN  { [text |-> Spaces(x[2]) \o (IF x[1] = 1 THEN << "*", "/" >> ELSE <<>>) \o Spaces(x[3])
                    \o Numeral(x[4], x[5], x[6]) \o Spaces(x[7]),
         kind |-> IF x[1] = 1 THEN "step" ELSE "literal",
         n |-> IF x[4] = 1 THEN 0 - x[6] ELSE x[6]] : x \in shapes }
ReadingTexts == { w.text : w \in Readings }
ReadingsOf(v) == IF v \in ReadingTexts THEN { w \in Readings : w.text = v } ELSE {}
IsBlankText(v) == \A k \in 1..Len(v) : v[k] = " "
IsStarText(v) ==
  \E k \in 1..Len(v) : v[k] = "*" /\ \A j \in (1..Len(v)) \ {k} : v[j] = " "
\* the values a returned list holds
Returned(r) == { r.val[k] : k \in 1..Len(r.val) }

\* C21: _parse_time_field returns, for every max_value, [0] for a blank text,
\* 0..max_value for "*", the multiples of N within 0..max_value for "*/N" with
\* N > 0, and [v] for a literal v within 0..max_value; so "*/15" with 59 gives
\* 0, 15, 30, 45.
C21_ExpandReturns ==
  (last_op = "parse") =>
    /\ IsBlankText(field_value) =>
         (field_result.ok /\ Returned(field_result) = {0})
    /\ IsStarText(field_value) =>
         (field_result.ok /\ Returned(field_result) = 0..field_max)
    /\ \A w \in ReadingsOf(field_value) :
         /\ (w.kind = "step" /\ w.n > 0) =>
              /\ field_result.ok
              /\ Returned(field_result) = Every(w.n, field_max)
         /\ (w.kind = "literal" /\ 0 <= w.n /\ w.n <= field_max) =>
              /\ field_result.ok
              /\ Returned(field_result) = {w.n}
    /\ (field_value = << "*", "/", "1", "5" >> /\ field_max = 59) =>
         field_result = Parsed(<< 0, 15, 30, 45 >>)

\* "*/15" was expanded for the minutes
C21_Witness ==
  /\ last_op = "parse"
  /\ field_value = << "*", "/", "1", "5" >>
  /\ field_max = MaxMinuteValue
  /\ field_result.ok
  /\ Returned(field_result) = {0, 15, 30, 45}

\* C22: _parse_time_field raises, and returns nothing, for "*/N" with N <= 0
\* or N not a number, for a literal below 0 or above max_value, and for every
\* text of another form; a returned list holds values of 0..max_value only.
C22_ExpandRejects ==
  (last_op = "parse") =>
    /\ field_result.ok => Returned(field_result) \subseteq 0..field_max
    /\ \A w \in ReadingsOf(field_value) :
         /\ (w.kind = "step" /\ w.n <= 0) => ~field_result.ok
         /\ (w.kind = "literal" /\ (w.n < 0 \/ w.n > field_max)) => ~field_result.ok
    /\ (/\ ReadingsOf(field_value) = {}
        /\ ~IsBlankText(field_value)
        /\ ~IsStarText(field_value)) => ~field_result.ok

\* a literal above the hours' maximum was rejected
C22_Witness ==
  /\ last_op = "parse"
  /\ field_value = << "5", "5" >>
  /\ field_max = MaxHourValue
  /\ ~field_result.ok

\* what ScriptWaits says of each chain, written out by hand: the minutes of
\* its WAIT step, the place of that step, and what the step after it logs
WaitOf(name) == CASE name = "NOW" -> 0 [] name = "PAUSE" -> 1 [] OTHER -> 2
WaitAt(name) == IF name = "LONG" THEN 2 ELSE 1
AfterWait(name) ==
  CASE name = "NOW" -> Event("enqueue", ClipA)
    [] name = "PAUSE" -> Event("enqueue", ClipC)
    [] OTHER -> Event("toast", ToastX)
\* the handler of this step ended on a WAIT step
WaitBegan == NewEvents # <<>> /\ NewEvents[Len(NewEvents)].ev = "wait"
\* this step is the dispatch of an expired WAIT timer
WaitEnded == NewEvents # <<>> /\ NewEvents[1].ev = "wait_over"
\* the timer the stored handle names, armed by a WAIT of unit seconds per
\* unit of its value
ArmedFor(unit) ==
  \E tm \in timers' : \E name \in DOMAIN ScriptWaits :
    /\ tm.id = step_timer_source'
    /\ tm.steps = ScriptWaits[name]
    /\ tm.idx = WaitAt(name) + 1
    /\ NewEvents[Len(NewEvents)].val = << "minutes", WaitOf(name) >>
    /\ tm.due = AbsTime(clock) + WaitOf(name) * unit

C27_OneTimerPending ==
  /\ Cardinality(timers) <= 1
  /\ (step_timer_source # 0) <=> (timers # {})
  /\ \A tm \in timers : tm.id = step_timer_source

\* a second WAIT step was run while the timer of an earlier one was pending
C27_Witness ==
  /\ Cardinality(timers) = 1
  /\ step_timer_source # 0
  /\ \E i \in 1..Len(history) : \E j \in (i + 1)..Len(history) :
       /\ history[i].ev = "wait" /\ history[i].val[2] > 0
       /\ history[j].ev = "wait"
       /\ \A k \in i..j : history[k].ev # "wait_over"
       /\ \E k \in i..j : history[k].ev = "starting"

\* the events of a step of a sequence being started
SeqStepEvents == {"toast", "wait", "short_wait", "no_wait", "play"}
SeqEndEvents == {"end_late", "end_done", "end_no_play"}
SeqEnded == ~seq_active /\ seq_queue = <<>> /\ seq_deadline_ts = 0
\* what the handler that ran last did keeps to the deadline
DeadlineKept ==
  \A k \in 1..Len(seq_log.last) :
    LET e == seq_log.last[k]
        second == TicksPerSecond
    IN  /\ e.ev = "launch" =>
             e.deadline = e.at + (IF e.val[1] < 1 THEN 1 ELSE e.val[1]) * second
        /\ e.ev \in SeqStepEvents => e.at < e.deadline
        /\ e.ev \in {"wait", "short_wait"} =>
             /\ 0 < e.val[2] /\ e.val[2] <= e.val[1]
             /\ e.at + e.val[2] * second <= e.deadline
             /\ e.ev = "short_wait" => e.deadline - (e.at + e.val[2] * second) < second
             /\ \E tm \in seq_timers :
                  tm.id = seq_wait_timer_id /\ tm.due = e.at + e.val[2] * second
        /\ e.ev = "play" => e.deadline - e.at > second
        /\ e.ev \in SeqEndEvents => SeqEnded

\* C30: in the v9 sequence runner the deadline of a sequence is its launch
\* time + max(1, duration) seconds; every step of the sequence is started
\* before the deadline; a wait step's timer runs for no longer than the time
\* remaining; a play step is started only with more than 1 second remaining;
\* and a continuation at or after the deadline starts no step and ends the
\* sequence (not active, queue empty, no deadline).
C30_DeadlineEndsSequence ==
  /\ []DeadlineKept
  /\ [][((SeqIdle \/ SeqTimer) /\ seq_active /\ seq_now >= seq_deadline_ts) =>
          /\ SeqEnded'
          /\ Len(seq_log'.last) = 1
          /\ seq_log'.last[1].ev = "end_late"]_vars

\* a sequence that played a video and whose wait was cut to the time
\* remaining was ended, with a step left, by the continuation that came at or
\* after its deadline
C30_Witness ==
  /\ {"play", "short_wait"} \subseteq seq_log.seen
  /\ Len(seq_log.last) = 1
  /\ seq_log.last[1].ev = "end_late"
  /\ seq_log.last[1].at >= seq_log.last[1].deadline
  /\ seq_log.last[1].val[1] > 0
  /\ SeqEnded

\* the paths enqueue_file took so far, and those of them that were handed to
\* the player or passed over as missing
Accepted == Len(EventVals(history, {"enqueue"}))
Settled == Len(EventVals(history, {"play", "not_found"}))

\* C31: when the player answers every file it is handed with a finished or
\* failed event, every path enqueue_file accepted is in the end handed to the
\* player or passed over as missing, and once no more paths are enqueued the
\* player comes to rest with playing false and an empty queue.
C31_QueueDrains ==
  /\ []<>(Settled = Accepted)
  /\ <>[](~playing /\ play_queue = <<>>)

\* the player is at rest after two paths had waited in the queue together,
\* one of which had disappeared by the time it was popped
C31_Witness ==
  /\ ~playing
  /\ play_queue = <<>>
  /\ Accepted >= 3
  /\ Settled = Accepted
  /\ \E k \in 1..(Len(history) - 1) :
       history[k].ev = "enqueue" /\ history[k + 1].ev = "enqueue"
  /\ \E k \in 1..Len(history) : history[k].ev = "not_found"

\* C32: after every handler (an enqueue, a finished or failed playback, a
\* tick, a step of an action chain) a non-empty play_queue means playing is
\* true; a handler that leaves the queue longer leaves playing true; and
\* enqueue_file, called between two handlers, appends only when playing is
\* true.
C32_QueuedImpliesPlaying ==
  /\ [](play_queue # <<>> => playing)
  /\ [](\A path \in files \cup {NoPath} :
          Len(enqueue_file(Self, path).play_queue) > Len(play_queue) => playing)
  /\ [][Len(play_queue') > Len(play_queue) => playing']_vars

\* a path waits in the queue behind the file being played
C32_Witness ==
  /\ play_queue # <<>>
  /\ playing
  /\ last_op \in {"tick", "newday_tick", "other"}

\* the tick of the day's last second has run
DayTicked ==
  /\ last_op \in {"tick", "newday_tick"}
  /\ clock.sec = SecsPerDay - 1
\* the entries flagged for today
FlaggedToday == { i \in 1..Len(schedule) : Weekday(clock) \in schedule[i].days }

\* C33: with a tick at every second of a day and no reload, every entry
\* flagged for that day fires exactly once on it, whatever offset was sampled:
\* no tick fires an entry that has fired that day, and after the tick of the
\* day's last second every flagged entry has fired; entries whose time plus
\* offset reaches the end of the day included.
C33_FiresOncePerDay ==
  /\ [](DayTicked => \A i \in FlaggedToday : DictGet(today_fired, i, FALSE))
  /\ [][TickStep => \A i \in LogIdx(tick_log') : ~MidFired(i)]_vars

\* a started chain has a step left to run: a pending idle callback or a
\* pending WAIT timer that names a step of its list
StepsLeft ==
  \/ \E k \in 1..Len(idle) : idle[k].kind = "chain" /\ idle[k].idx <= Len(idle[k].steps)
  \/ \E tm \in timers : tm.idx <= Len(tm.steps)

\* C34: whenever a started chain has a step left to run, _action_running is
\* true and _current_action_name is set; a handler clears them only when no
\* chain has a step left.
C34_RunningWhileStepsLeft ==
  /\ [](StepsLeft => (action_running /\ current_action_name # NoName))
  /\ [][(action_running /\ ~action_running') => ~StepsLeft']_vars

\* a chain of action name n that was started is not finished: one of its
\* callbacks is pending on the main loop, or its WAIT timer is
InProgress(n) ==
  \/ \E k \in 1..Len(idle) : idle[k].kind = "chain" /\ idle[k].steps = actions_script[n]
  \/ \E tm \in timers : tm.steps = actions_script[n]

\* C35: a manual trigger starts no chain of an action name while a chain of
\* that name, started earlier, is running or waiting, whatever other actions
\* were started or have finished in between.
C35_ManualNeverDoubles ==
  [][\A n \in DOMAIN actions_script :
       (last_op' = "manual" /\ \E k \in 1..Len(NewEvents) :
                                 NewEvents[k] = Event("starting", << n, 0 >>))
         => ~InProgress(n)]_vars

\* the pending callbacks of chains: the step list and the index each will run
ChainSources ==
  { [steps |-> idle[k].steps, idx |-> idle[k].idx] :
      k \in { j \in 1..Len(idle) : idle[j].kind = "chain" } }
    \cup { [steps |-> tm.steps, idx |-> tm.idx] : tm \in timers }
ChainFinished ==
  /\ \E k \in 1..Len(history) : history[k].ev = "finished"
  /\ ~action_running
  /\ current_action_name = NoName
  /\ ChainSources = {}

\* C36: a chain that is started alone, with the main loop dispatching its
\* idle callbacks and timers, in the end finishes: its index has passed the
\* last step, the running flag is cleared and nothing of it is pending. Each
\* dispatch moves the index on by exactly one, and the dispatch at the end of
\* the list finishes the chain.
C36_ChainFinishes ==
  /\ [](Starts(history) >= 1 => <>ChainFinished)
  /\ [][(ChainSources # {} /\ ChainSources' # ChainSources) =>
          \E c \in ChainSources :
            /\ ChainSources = {c}
            /\ IF c.idx > Len(c.steps)
               THEN ChainFinished'
               ELSE ChainSources' = {[steps |-> c.steps, idx |-> c.idx + 1]}]_vars

\* the chain with a WAIT step ran all of its steps and finished
C36_Witness ==
  /\ ChainFinished
  /\ history[1] = Event("starting", << "LINEAR", 0 >>)
  /\ \E k \in 1..Len(history) : history[k].ev = "wait_over"
  /\ \E k \in 1..Len(history) : history[k] = Event("enqueue", ClipB)

\* the paths a play step can ask the queue for
PathsOf(st) ==
  IF st.op = "PLAY" THEN { st.val }
  ELSE IF st.op = "PLAY-RANDOM" THEN Picks(st.val)
  ELSE {}
\* the paths the queue has dealt with so far, in order: handed to the player,
\* or left out as missing
Handled == EventVals(history, {"play", "not_found", "skipping"})
Among(log, paths) == Len(SelectSeq(log, LAMBDA p : p \in paths))

\* C37: the videos of one invocation reach the player in the order of its
\* play steps, whatever else shares the queue: at every moment, and for every
\* two play steps of an action, the videos of the later step handed over so
\* far are no more than those of the earlier step dealt with so far; and the
\* videos handed over follow the order in which they were accepted.
C37_StepOrderKept ==
  /\ \A n \in DOMAIN actions_script :
       \A i, j \in 1..Len(actions_script[n]) :
         i < j =>
           \A k \in 0..Len(Handled) :
             Among(SubSeq(Handled, 1, k), PathsOf(actions_script[n][j]))
               <= Among(SubSeq(Handled, 1, k), PathsOf(actions_script[n][i]))
  /\ EventVals(history, {"play", "not_found"}) \o play_queue
       = EventVals(history, {"enqueue"})

\* the first videos of both actions were accepted while another video was
\* playing, and the second video of the first action was played after them
C37_Witness ==
  /\ actions_script = ScriptMix
  /\ \E k, m \in 1..Len(history) :
       /\ k < m
       /\ history[k] = Event("enqueue", ClipA)
       /\ history[m].ev = "enqueue"
       /\ history[m].val \in Picks(PatternClip)
       /\ \A x \in k..m : history[x].ev # "play"
  /\ \E a, b, c \in 1..Len(Handled) :
       /\ a < b /\ b < c
       /\ Handled[a] = ClipA
       /\ Handled[b] \in Picks(PatternClip)
       /\ Handled[c] = ClipB
  /\ \E k \in 1..Len(history) : history[k] = Event("play", <<"hour", 0>>)
  /\ history[Len(history)] = Event("play", ClipB)

\* a tick is about to see an hour other than the one it saw last, and the
\* video of that hour, or the fallback, is on the disk
HourChangePlayable ==
  /\ Hour(clock) # last_seen_hour
  /\ path_for_hour(files, Hour(clock)) \in files

\* C38 (as claimed): a tick that sees the hour change, the video of the new
\* hour or the fallback being playable, adds that hour's video exactly once,
\* also when the hour is the one whose video was added last and the hours in
\* between had no video.
C38_HourChangeEnqueuesOnce ==
  [][(TickStep /\ HourChangePlayable) =>
       hour_adds' = Append(hour_adds, Hour(clock))]_vars

\* C39 (as claimed): the startup sequence ends, whether its videos end with
\* end-of-stream or with an error: in_startup becomes false with the startup
\* queue empty, and from then on play_for_hour is not skipped.
C39_StartupEnds == <>(~in_startup /\ startup_queue = <<>>)

\* C40 (as claimed): a launched sequence ends, also when a play step names a
\* missing file or the playback ends with an error: whenever seq_active is
\* true, later it is false with the queue emptied.
C40_SequenceEnds == [](seq_active => <>(~seq_active /\ seq_queue = <<>>))

====
